---- MODULE Spec2Model ----
(***************************************************************************)
(* Progression state machine of the f17n355 fitness tracker: Milestone,    *)
(* Tier, TierConfiguration, ProgressionService, AthleteRepository and the  *)
(* hash commands of DebugInterface.                                        *)
(*                                                                         *)
(* Arrays are sequences (1-based here, 0-based in the source: the element  *)
(* at source index i is element i + 1).  Ratios that the source computes   *)
(* in floating point are kept as reduced fractions [n, d].                 *)
(***************************************************************************)
EXTENDS Integers, Sequences, FiniteSets, TLC

VARIABLES
  tierConfig,     \* ProgressionService._tierConfig: the array of Tier objects
  progressStore,  \* IndexedDB store "progress": << >> or <<record>>
  athlete,        \* IndexedDB store "athletes": the current-athlete record
  lastCall,       \* the operation that ran last
  lastResult,     \* what that operation returned (or that it threw)
  atTrigger,      \* the tier advancement of the last operation, if any
  m,              \* a stand-alone Milestone object (unit level)
  vm,             \* the fields of MainScreenViewModel that the submit flow uses
  calls,          \* the engine calls in progress, each at one of its awaits
  workouts,       \* IndexedDB store "workouts", as the proof-method flow fills it
  heap            \* Tier objects and plain records with the arrays that their
                  \* benchmarksCompleted fields refer to (reference level)

vars == <<tierConfig, progressStore, athlete, lastCall, lastResult, atTrigger, m,
          vm, calls, workouts, heap>>

(***************************************************************************)
(* Bounds.  The catalog of the source has 5 tiers of 5 milestones with     *)
(* requirements of 5..75 workouts and 2..6 benchmarks; the model keeps its *)
(* shape (cumulative milestones with a requirement list, benchmark         *)
(* milestones with an empty one) at a reduced size.                        *)
(***************************************************************************)
NumTiers == 3
MaxRequired == 2
MaxBenchmarks == 2

\* the platinum milestone of tier 0 has two benchmarks
NumBenchmarks == 2

\* the engine calls that can be in progress at the same time
MaxCalls == 2

\* ------------------------------------------------------------------------
\* Generic helpers
\* ------------------------------------------------------------------------
Min(a, b) == IF a <= b THEN a ELSE b

RECURSIVE GCD(_, _)
GCD(a, b) == IF b = 0 THEN a ELSE GCD(b, a % b)

\* A JavaScript number obtained as n / d: NaN is [n |-> 0, d |-> 0],
\* Infinity is [n |-> 1, d |-> 0].
Frac(n, d) ==
  IF d = 0 THEN [n |-> IF n = 0 THEN 0 ELSE 1, d |-> 0]
  ELSE LET g == GCD(n, d) IN [n |-> n \div g, d |-> d \div g]

\* Math.min(100, x): NaN stays NaN, Infinity becomes 100.
Min100(x) ==
  IF x.d = 0 THEN (IF x.n = 0 THEN x ELSE [n |-> 100, d |-> 1])
  ELSE IF x.n >= 100 * x.d THEN [n |-> 100, d |-> 1] ELSE x

\* a + b on such numbers (both finite)
FracAdd(a, b) == Frac(a.n * b.d + b.n * a.d, a.d * b.d)

\* Array.prototype.includes
includes(arr, x) == \E k \in 1..Len(arr) : arr[k] = x

\* The array [0, 1, ..., n - 1]
Indices(n) == [k \in 1..n |-> k - 1]

\* ------------------------------------------------------------------------
\* Milestone (src/js/models/Milestone.js)
\* ------------------------------------------------------------------------
MilestoneTypes == {"bronze", "silver", "gold", "platinum", "diamond"}

\* new Milestone(type, name, requiredWorkouts, workoutRequirements, benchmarkWorkouts)
NewMilestone(type, name, requiredWorkouts, workoutRequirements, benchmarkWorkouts) ==
  [type |-> type, name |-> name, requiredWorkouts |-> requiredWorkouts,
   workoutRequirements |-> workoutRequirements,
   benchmarkWorkouts |-> benchmarkWorkouts,
   progress |-> 0, benchmarksCompleted |-> << >>]

usesBenchmarks(ms) == Len(ms.benchmarkWorkouts) > 0

\* isCompleted as it was before benchmarks: the counter decides
isCompletedByCounter(ms) == ms.progress >= ms.requiredWorkouts

isCompleted(ms) ==
  IF usesBenchmarks(ms)
  THEN Len(ms.benchmarksCompleted) >= Len(ms.benchmarkWorkouts)
  ELSE ms.progress >= ms.requiredWorkouts

progressPercent(ms) ==
  IF usesBenchmarks(ms)
  THEN IF Len(ms.benchmarkWorkouts) = 0 THEN Frac(0, 1)
       ELSE Min100(Frac(Len(ms.benchmarksCompleted) * 100, Len(ms.benchmarkWorkouts)))
  ELSE Min100(Frac(ms.progress * 100, ms.requiredWorkouts))

\* addProgress without the Math.min cap
\* addProgress that stops one short of the requirement
addProgressStopsShort(ms, count) ==
  [ms EXCEPT !.progress = Min(ms.progress + count, ms.requiredWorkouts - 1)]

addProgressAssigns(ms, count) ==
  [ms EXCEPT !.progress = Min(count, ms.requiredWorkouts)]

addProgressUncapped(ms, count) ==
  [ms EXCEPT !.progress = ms.progress + count]

addProgress(ms, count) ==
  [ms EXCEPT !.progress = Min(ms.progress + count, ms.requiredWorkouts)]

\* completeBenchmark without the includes() test
completeBenchmarkAlwaysPush(ms, benchmarkIndex) ==
  [ms EXCEPT !.benchmarksCompleted = Append(ms.benchmarksCompleted, benchmarkIndex)]

\* completeBenchmark that compares with the last entry only
completeBenchmarkChecksLast(ms, benchmarkIndex) ==
  IF Len(ms.benchmarksCompleted) = 0
     \/ ms.benchmarksCompleted[Len(ms.benchmarksCompleted)] # benchmarkIndex
  THEN [ms EXCEPT !.benchmarksCompleted = Append(ms.benchmarksCompleted, benchmarkIndex)]
  ELSE ms

completeBenchmark(ms, benchmarkIndex) ==
  IF ~includes(ms.benchmarksCompleted, benchmarkIndex)
  THEN [ms EXCEPT !.benchmarksCompleted = Append(ms.benchmarksCompleted, benchmarkIndex)]
  ELSE ms

\* acceptsWorkoutType without the requirement list
acceptsAnyWorkoutType(ms, workoutType) == TRUE

acceptsWorkoutType(ms, workoutType) ==
  IF Len(ms.workoutRequirements) = 0 THEN TRUE
  ELSE \E k \in 1..Len(ms.workoutRequirements) :
         ms.workoutRequirements[k].workoutType = workoutType

\* get workoutTypes
workoutTypes(ms) ==
  [k \in 1..Len(ms.workoutRequirements) |-> ms.workoutRequirements[k].workoutType]

\* reset that clears the counter only
resetCounterOnly(ms) == [ms EXCEPT !.progress = 0]

reset(ms) == [ms EXCEPT !.progress = 0, !.benchmarksCompleted = << >>]

\* toJSON as it was before benchmarks were tracked
MilestoneToJSONNoBenchmarks(ms) ==
  [type |-> ms.type, name |-> ms.name, requiredWorkouts |-> ms.requiredWorkouts,
   workoutRequirements |-> ms.workoutRequirements,
   benchmarkWorkouts |-> ms.benchmarkWorkouts,
   progress |-> ms.progress]

MilestoneToJSON(ms) ==
  [type |-> ms.type, name |-> ms.name, requiredWorkouts |-> ms.requiredWorkouts,
   workoutRequirements |-> ms.workoutRequirements,
   benchmarkWorkouts |-> ms.benchmarkWorkouts,
   progress |-> ms.progress, benchmarksCompleted |-> ms.benchmarksCompleted]

\* data.f || dflt for a field that may be missing from the record
FieldOr(data, f, dflt) == IF f \in DOMAIN data THEN data[f] ELSE dflt

\* n || 0 for a number (0 is falsy)
NumOrZero(n) == IF n = 0 THEN 0 ELSE n

MilestoneFromJSON(data) ==
  [NewMilestone(data.type, data.name, data.requiredWorkouts,
                FieldOr(data, "workoutRequirements", << >>),
                FieldOr(data, "benchmarkWorkouts", << >>))
     EXCEPT !.progress = NumOrZero(FieldOr(data, "progress", 0)),
            !.benchmarksCompleted = FieldOr(data, "benchmarksCompleted", << >>)]

\* clone(): a new Milestone from the definitions
MilestoneClone(ms) ==
  NewMilestone(ms.type, ms.name, ms.requiredWorkouts, ms.workoutRequirements,
               ms.benchmarkWorkouts)

\* ------------------------------------------------------------------------
\* Tier (src/js/models/Tier.js)
\* ------------------------------------------------------------------------
NewTier(level, name, milestones) ==
  [level |-> level, name |-> name, milestones |-> milestones]

\* isCompleted with some() in place of every()
tierIsCompletedSome(t) ==
  \E k \in 1..Len(t.milestones) : isCompleted(t.milestones[k])

\* isCompleted that tolerates one open milestone
tierIsCompletedAllButOne(t) ==
  Cardinality({k \in 1..Len(t.milestones) : ~isCompleted(t.milestones[k])}) <= 1

tierIsCompleted(t) ==
  \A k \in 1..Len(t.milestones) : isCompleted(t.milestones[k])

completedMilestones(t) ==
  Cardinality({k \in 1..Len(t.milestones) : isCompleted(t.milestones[k])})

\* the weight with Math.floor in place of Math.ceil
BenchmarkValueFloor(requiredWorkouts) == (requiredWorkouts * 15) \div 100

\* Math.ceil(requiredWorkouts * 0.15)
BenchmarkValue(requiredWorkouts) == (requiredWorkouts * 15 + 99) \div 100

RECURSIVE SumNeeded(_, _)
SumNeeded(ms, k) ==
  IF k = 0 THEN 0
  ELSE SumNeeded(ms, k - 1) +
       (IF usesBenchmarks(ms[k]) THEN BenchmarkValue(ms[k].requiredWorkouts)
        ELSE ms[k].requiredWorkouts)

\* getTotalWorkoutsNeeded that leaves the benchmark milestones out
getTotalWorkoutsNeededCumulative(t) ==
  LET cumulative == SelectSeq(t.milestones, LAMBDA ms : ~usesBenchmarks(ms)) IN
  SumNeeded(cumulative, Len(cumulative))

getTotalWorkoutsNeeded(t) == SumNeeded(t.milestones, Len(t.milestones))

RECURSIVE SumCompleted(_, _)
SumCompleted(ms, k) ==
  IF k = 0 THEN Frac(0, 1)
  ELSE FracAdd(SumCompleted(ms, k - 1),
         IF usesBenchmarks(ms[k])
         THEN Frac(Len(ms[k].benchmarksCompleted) * BenchmarkValue(ms[k].requiredWorkouts),
                   Len(ms[k].benchmarkWorkouts))
         ELSE Frac(ms[k].progress, 1))

getTotalWorkoutsCompleted(t) == SumCompleted(t.milestones, Len(t.milestones))

tierProgressPercent(t) ==
  LET totalWorkoutsNeeded == getTotalWorkoutsNeeded(t)
      totalWorkoutsCompleted == getTotalWorkoutsCompleted(t)
  IN IF totalWorkoutsNeeded = 0 THEN Frac(0, 1)
     ELSE Min100(Frac(totalWorkoutsCompleted.n * 100,
                      totalWorkoutsCompleted.d * totalWorkoutsNeeded))

\* Array.prototype.find: the position of the first match, 0 for undefined
findMilestoneByType(t, type) ==
  IF \E k \in 1..Len(t.milestones) : t.milestones[k].type = type
  THEN CHOOSE k \in 1..Len(t.milestones) :
         /\ t.milestones[k].type = type
         /\ \A j \in 1..(k - 1) : t.milestones[j].type # type
  ELSE 0

resetProgress(t) ==
  [t EXCEPT !.milestones = [k \in 1..Len(t.milestones) |-> reset(t.milestones[k])]]

\* clone(): a new Tier with the clones of the milestones
TierClone(t) ==
  NewTier(t.level, t.name, [k \in 1..Len(t.milestones) |-> MilestoneClone(t.milestones[k])])

TierToJSON(t) ==
  [level |-> t.level, name |-> t.name,
   milestones |-> [k \in 1..Len(t.milestones) |-> MilestoneToJSON(t.milestones[k])]]

TierFromJSON(data) ==
  NewTier(data.level, data.name,
          [k \in 1..Len(data.milestones) |-> MilestoneFromJSON(data.milestones[k])])

\* ------------------------------------------------------------------------
\* TierConfiguration (src/js/app.js)
\* ------------------------------------------------------------------------
WorkoutTypes == {"Walking", "Stretching", "Running"}

TierNames == <<"Beginner", "Novice", "Intermediate", "Advanced", "Master">>

BenchmarkNames == <<"Endurance Challenge", "Flexibility Test", "Beginner Mastery",
                    "Cardio Foundation">>

\* One tier of the catalog: a cumulative milestone with a requirement list
\* and a benchmark milestone with an empty requirement list and a nominal
\* requiredWorkouts.  Only tier 0 is sized by the bounds; the first and the
\* last tier have both milestones, the tiers between them keep the
\* cumulative milestone only.
DefaultTier(level) ==
  NewTier(level, TierNames[level + 1],
    << NewMilestone("bronze", "First Steps", IF level = 0 THEN MaxRequired ELSE 1,
         << [workoutType |-> "Walking"], [workoutType |-> "Stretching"] >>,
         << >>) >>
    \o (IF level >= 1 /\ level < NumTiers - 1 THEN << >>
        ELSE << NewMilestone("platinum", "Consistent", 1,
                  << >>,
                  [k \in 1..(IF level = 0 THEN NumBenchmarks ELSE 1) |->
                     [name |-> BenchmarkNames[k]]]) >>))

createDefaultTiers == [k \in 1..NumTiers |-> DefaultTier(k - 1)]

\* new TierConfiguration()
NewTierConfiguration == createDefaultTiers

tierCount(cfg) == Len(cfg)

\* this._tiers[level] || null: the position of the tier, 0 for null
getTierByLevel(cfg, level) ==
  IF level >= 0 /\ level < Len(cfg) THEN level + 1 ELSE 0

getWorkoutTypesForMilestone(cfg, tierLevel, milestoneType) ==
  LET ti == getTierByLevel(cfg, tierLevel) IN
  IF ti = 0 THEN <<"Walking", "Stretching", "Running">>
  ELSE LET mi == findMilestoneByType(cfg[ti], milestoneType) IN
       IF mi = 0 \/ Len(workoutTypes(cfg[ti].milestones[mi])) = 0
       THEN <<"Walking", "Stretching", "Running">>
       ELSE workoutTypes(cfg[ti].milestones[mi])

\* cloneWithFreshProgress(): the clones of the tiers
cloneWithFreshProgress(cfg) == [k \in 1..Len(cfg) |-> TierClone(cfg[k])]

toJSON(cfg) == [tiers |-> [k \in 1..Len(cfg) |-> TierToJSON(cfg[k])]]

fromJSON(data) == [k \in 1..Len(data.tiers) |-> TierFromJSON(data.tiers[k])]

\* ------------------------------------------------------------------------
\* AthleteRepository (src/js/repositories/AthleteRepository.js)
\* A world w is [tierConfig, progressStore, athlete]; an operation maps a
\* world to the world it leaves and to what it returned.
\* ------------------------------------------------------------------------
NoAthlete == [exists |-> FALSE, currentTier |-> 0]

\* createAthlete: new Athlete(...) has currentTier 0
createAthlete(w) == [w EXCEPT !.athlete = [exists |-> TRUE, currentTier |-> 0]]

\* updateTier throws when there is no athlete record
updateTierThrows(w) == ~w.athlete.exists

\* updateTier that stores the number shown to the user (Tier 1 is level 0)
updateTierOneBased(w, tierLevel) == [w EXCEPT !.athlete.currentTier = tierLevel + 1]

updateTier(w, tierLevel) == [w EXCEPT !.athlete.currentTier = tierLevel]

\* ------------------------------------------------------------------------
\* ProgressionService (src/unnamed/part_003)
\* ------------------------------------------------------------------------
progressKey == "tier-progress"

\* JSON.parse(JSON.stringify(data)) of numbers, strings, arrays and plain
\* objects: a copy with the same content
safeData(data) == data

saveProgress(w) ==
  [w EXCEPT !.progressStore =
     << safeData([id |-> progressKey, tiers |-> toJSON(w.tierConfig).tiers]) >>]

initialize(w) ==
  IF Len(w.progressStore) > 0 /\ "tiers" \in DOMAIN w.progressStore[1]
  THEN [w EXCEPT !.tierConfig = fromJSON(w.progressStore[1])]
  ELSE w

getCurrentTier(w) == IF ~w.athlete.exists THEN 0 ELSE w.athlete.currentTier

\* atTrigger: << >>, or the level advanced from and the configuration at
\* the moment the advancement started
NoTrigger == << >>

Triggered(level, cfg) == << [level |-> level, tierConfig |-> cfg] >>

\* _checkTierLevelUp without the second saveProgress()
checkTierLevelUpNoSave(w, currentTierLevel) ==
  LET nextTierLevel == currentTierLevel + 1
      nextTier == getTierByLevel(w.tierConfig, nextTierLevel)
      w1 == IF nextTier # 0
            THEN [w EXCEPT !.tierConfig[nextTier] = resetProgress(w.tierConfig[nextTier])]
            ELSE w
  IN IF nextTierLevel >= tierCount(w.tierConfig)
     THEN [w |-> w, threw |-> FALSE, trigger |-> NoTrigger,
           ret |-> [leveledUp |-> FALSE, maxTierReached |-> TRUE]]
     ELSE IF updateTierThrows(w1)
     THEN [w |-> w1, threw |-> TRUE, trigger |-> Triggered(currentTierLevel, w.tierConfig),
           ret |-> [leveledUp |-> FALSE]]
     ELSE [w |-> updateTier(w1, nextTierLevel),
           threw |-> FALSE, trigger |-> Triggered(currentTierLevel, w.tierConfig),
           ret |-> [leveledUp |-> TRUE, newTier |-> nextTierLevel,
                    tierName |-> w1.tierConfig[nextTier].name]]

\* _checkTierLevelUp with > in place of >= in the last-tier test: at the
\* last tier nextTier is null and nextTier.resetProgress() throws
checkTierLevelUpOffByOne(w, currentTierLevel) ==
  LET nextTierLevel == currentTierLevel + 1
      nextTier == getTierByLevel(w.tierConfig, nextTierLevel)
      w1 == IF nextTier # 0
            THEN [w EXCEPT !.tierConfig[nextTier] = resetProgress(w.tierConfig[nextTier])]
            ELSE w
  IN IF nextTierLevel > tierCount(w.tierConfig)
     THEN [w |-> w, threw |-> FALSE, trigger |-> NoTrigger,
           ret |-> [leveledUp |-> FALSE, maxTierReached |-> TRUE]]
     ELSE IF nextTier = 0 \/ updateTierThrows(w1)
     THEN [w |-> w1, threw |-> TRUE, trigger |-> Triggered(currentTierLevel, w.tierConfig),
           ret |-> [leveledUp |-> FALSE]]
     ELSE [w |-> saveProgress(updateTier(w1, nextTierLevel)),
           threw |-> FALSE, trigger |-> Triggered(currentTierLevel, w.tierConfig),
           ret |-> [leveledUp |-> TRUE, newTier |-> nextTierLevel,
                    tierName |-> w1.tierConfig[nextTier].name]]

\* _checkTierLevelUp: [w, ret, threw, trigger]
checkTierLevelUp(w, currentTierLevel) ==
  LET nextTierLevel == currentTierLevel + 1
      nextTier == getTierByLevel(w.tierConfig, nextTierLevel)
      w1 == IF nextTier # 0
            THEN [w EXCEPT !.tierConfig[nextTier] = resetProgress(w.tierConfig[nextTier])]
            ELSE w
  IN IF nextTierLevel >= tierCount(w.tierConfig)
     THEN [w |-> w, threw |-> FALSE, trigger |-> NoTrigger,
           ret |-> [leveledUp |-> FALSE, maxTierReached |-> TRUE]]
     ELSE IF updateTierThrows(w1)
     THEN [w |-> w1, threw |-> TRUE, trigger |-> Triggered(currentTierLevel, w.tierConfig),
           ret |-> [leveledUp |-> FALSE]]
     ELSE [w |-> saveProgress(updateTier(w1, nextTierLevel)),
           threw |-> FALSE, trigger |-> Triggered(currentTierLevel, w.tierConfig),
           ret |-> [leveledUp |-> TRUE, newTier |-> nextTierLevel,
                    tierName |-> w1.tierConfig[nextTier].name]]

Thrown == [threw |-> TRUE]

Returned(r) == "success" \in DOMAIN r

\* the flag computed from the completion after the update only
justCompletedNow(wasCompleted, nowCompleted) == nowCompleted

\* justCompleted: !wasCompleted && nowCompleted
justCompleted(wasCompleted, nowCompleted) == ~wasCompleted /\ nowCompleted

\* addWorkoutProgress(workout): [w, result, trigger]
addWorkoutProgress(w, workout) ==
  LET ti == getTierByLevel(w.tierConfig, workout.tier) IN
  IF ti = 0
  THEN [w |-> w, trigger |-> NoTrigger,
        result |-> [success |-> FALSE, error |-> <<"Invalid tier">>]]
  ELSE
  LET mi == findMilestoneByType(w.tierConfig[ti], workout.milestoneType) IN
  IF mi = 0
  THEN [w |-> w, trigger |-> NoTrigger,
        result |-> [success |-> FALSE, error |-> <<"Invalid milestone">>]]
  ELSE
  LET milestone == w.tierConfig[ti].milestones[mi] IN
  IF ~acceptsWorkoutType(milestone, workout.type)
  THEN [w |-> w, trigger |-> NoTrigger,
        result |-> [success |-> FALSE,
                    error |-> <<workout.type, "does not count towards", milestone.name>>]]
  ELSE
  LET wasCompleted == isCompleted(milestone)
      after == addProgress(milestone, 1)
      nowCompleted == isCompleted(after)
      w1 == saveProgress([w EXCEPT !.tierConfig[ti].milestones[mi] = after])
      result == [success |-> TRUE,
                 milestoneProgress |->
                   [name |-> after.name, progress |-> after.progress,
                    required |-> after.requiredWorkouts,
                    justCompleted |-> justCompleted(wasCompleted, nowCompleted)]]
  IN IF tierIsCompleted(w1.tierConfig[ti])
     THEN LET lu == checkTierLevelUp(w1, workout.tier) IN
          IF lu.threw
          THEN [w |-> lu.w, trigger |-> lu.trigger, result |-> Thrown]
          ELSE [w |-> lu.w, trigger |-> lu.trigger,
                result |-> [success |-> TRUE,
                            milestoneProgress |-> result.milestoneProgress,
                            tierLevelUp |-> lu.ret]]
     ELSE [w |-> w1, trigger |-> NoTrigger, result |-> result]

\* addWorkoutProgress(workout) with the rejection of putItem caught and
\* ignored: the call goes on as if the record had been written
addWorkoutProgressSaveSwallowed(w, workout) ==
  [addWorkoutProgress(w, workout) EXCEPT !.w.progressStore = w.progressStore]

\* addWorkoutProgress(workout) when putItem rejects inside the first
\* saveProgress(): the milestone is updated in memory, nothing is stored and
\* the call throws
addWorkoutProgressSaveFails(w, workout) ==
  LET ti == getTierByLevel(w.tierConfig, workout.tier)
      mi == IF ti = 0 THEN 0 ELSE findMilestoneByType(w.tierConfig[ti], workout.milestoneType)
  IN IF ti = 0 \/ mi = 0 THEN addWorkoutProgress(w, workout)
     ELSE IF ~acceptsWorkoutType(w.tierConfig[ti].milestones[mi], workout.type)
     THEN addWorkoutProgress(w, workout)
     ELSE [w |-> [w EXCEPT !.tierConfig[ti].milestones[mi] = addProgress(@, 1)],
           trigger |-> NoTrigger, result |-> Thrown]

\* resetAllProgress without the updateTier(0) call
resetAllProgressKeepsTier(w) ==
  [w |-> saveProgress([w EXCEPT !.tierConfig = NewTierConfiguration]),
   trigger |-> NoTrigger, result |-> [success |-> TRUE]]

\* resetAllProgress(): [w, result, trigger]
resetAllProgress(w) ==
  LET w1 == saveProgress([w EXCEPT !.tierConfig = NewTierConfiguration]) IN
  IF updateTierThrows(w1)
  THEN [w |-> w1, trigger |-> NoTrigger, result |-> Thrown]
  ELSE [w |-> updateTier(w1, 0), trigger |-> NoTrigger,
        result |-> [success |-> TRUE]]

\* one entry of the array that getAvailableMilestones() maps the milestones to
availableMilestone(ms) ==
  [type |-> ms.type, name |-> ms.name, progress |-> ms.progress,
   required |-> ms.requiredWorkouts, completed |-> isCompleted(ms),
   workoutTypes |-> workoutTypes(ms)]

\* (a, b) => a.completed - b.completed, on booleans converted to numbers
completedOrder(a, b) ==
  (IF a.completed THEN 1 ELSE 0) - (IF b.completed THEN 1 ELSE 0)

RECURSIVE insertStable(_, _)
\* the insertion of an unstable sort: x goes before the elements it ties with
insertBeforeEqual(sorted, x) ==
  SelectSeq(sorted, LAMBDA y : completedOrder(y, x) < 0) \o << x >>
    \o SelectSeq(sorted, LAMBDA y : completedOrder(y, x) >= 0)

\* x inserted into a sorted array behind every element that does not come
\* after it
insertStable(sorted, x) ==
  IF Len(sorted) = 0 THEN << x >>
  ELSE IF completedOrder(sorted[Len(sorted)], x) <= 0 THEN Append(sorted, x)
  ELSE Append(insertStable(SubSeq(sorted, 1, Len(sorted) - 1), x), sorted[Len(sorted)])

\* Array.prototype.sort, which is stable, on the first n elements of arr
RECURSIVE sortByCompleted(_, _)
sortByCompleted(arr, n) ==
  IF n = 0 THEN << >> ELSE insertStable(sortByCompleted(arr, n - 1), arr[n])

\* getAvailableMilestones(): the array it returns
getAvailableMilestones(w) ==
  LET tier == getTierByLevel(w.tierConfig, getCurrentTier(w)) IN
  IF tier = 0 THEN << >>
  ELSE LET mapped == [k \in 1..Len(w.tierConfig[tier].milestones) |->
                        availableMilestone(w.tierConfig[tier].milestones[k])]
       IN sortByCompleted(mapped, Len(mapped))

\* getAvailableMilestones() with sort() on the array of the tier itself
getAvailableMilestonesSortsTier(w) ==
  LET tier == getTierByLevel(w.tierConfig, getCurrentTier(w)) IN
  IF tier = 0 THEN [w |-> w, trigger |-> NoTrigger, result |-> [milestones |-> << >>]]
  ELSE LET tagged == [k \in 1..Len(w.tierConfig[tier].milestones) |->
                        [completed |-> isCompleted(w.tierConfig[tier].milestones[k]),
                         milestone |-> w.tierConfig[tier].milestones[k]]]
           sorted == sortByCompleted(tagged, Len(tagged))
           w1 == [w EXCEPT !.tierConfig[tier].milestones =
                    [k \in 1..Len(sorted) |-> sorted[k].milestone]]
       IN [w |-> w1, trigger |-> NoTrigger,
           result |-> [milestones |-> getAvailableMilestones(w1)]]

\* the call of getAvailableMilestones(): no field is assigned: [w, result, trigger]
getAvailableMilestonesCall(w) ==
  [w |-> w, trigger |-> NoTrigger, result |-> [milestones |-> getAvailableMilestones(w)]]

\* one entry of the milestones array of getTierProgressSummary()
summaryMilestone(ms) ==
  [type |-> ms.type, name |-> ms.name, progress |-> ms.progress,
   required |-> ms.requiredWorkouts, completed |-> isCompleted(ms),
   progressPercent |-> progressPercent(ms)]

\* getTierProgressSummary(): the object it returns
getTierProgressSummary(w) ==
  LET tier == getTierByLevel(w.tierConfig, getCurrentTier(w)) IN
  IF tier = 0
  THEN [tierLevel |-> 0, tierName |-> "Unknown", completedMilestones |-> 0,
        totalMilestones |-> 0, progressPercent |-> Frac(0, 1), milestones |-> << >>]
  ELSE LET t == w.tierConfig[tier] IN
       [tierLevel |-> t.level, tierName |-> t.name,
        completedMilestones |-> completedMilestones(t),
        totalMilestones |-> Len(t.milestones),
        totalWorkoutsNeeded |-> getTotalWorkoutsNeeded(t),
        totalWorkoutsCompleted |-> getTotalWorkoutsCompleted(t),
        progressPercent |-> tierProgressPercent(t),
        milestones |-> [k \in 1..Len(t.milestones) |-> summaryMilestone(t.milestones[k])]]

\* the call of getTierProgressSummary(): no field is assigned: [w, result, trigger]
getTierProgressSummaryCall(w) ==
  [w |-> w, trigger |-> NoTrigger, result |-> [summary |-> getTierProgressSummary(w)]]

\* the index check without its lower bound
validBenchmarkIndexNoLowerBound(ms, benchmarkIndex) ==
  benchmarkIndex < Len(ms.benchmarkWorkouts)

\* the index is a position of benchmarkWorkouts
validBenchmarkIndex(ms, benchmarkIndex) ==
  benchmarkIndex >= 0 /\ benchmarkIndex < Len(ms.benchmarkWorkouts)

\* completeBenchmark(workout, benchmarkIndex): the benchmark path of the
\* event state machine (resolve tier, resolve milestone, validate the index,
\* apply, persist, report, tier-advancement check): [w, result, trigger]
completeBenchmarkEvent(w, workout, benchmarkIndex) ==
  LET ti == getTierByLevel(w.tierConfig, workout.tier) IN
  IF ti = 0
  THEN [w |-> w, trigger |-> NoTrigger,
        result |-> [success |-> FALSE, error |-> <<"Invalid tier">>]]
  ELSE
  LET mi == findMilestoneByType(w.tierConfig[ti], workout.milestoneType) IN
  IF mi = 0
  THEN [w |-> w, trigger |-> NoTrigger,
        result |-> [success |-> FALSE, error |-> <<"Invalid milestone">>]]
  ELSE
  LET milestone == w.tierConfig[ti].milestones[mi] IN
  IF ~validBenchmarkIndex(milestone, benchmarkIndex)
  THEN [w |-> w, trigger |-> NoTrigger,
        result |-> [success |-> FALSE, error |-> <<"Invalid benchmark index">>]]
  ELSE
  LET wasCompleted == isCompleted(milestone)
      after == completeBenchmark(milestone, benchmarkIndex)
      nowCompleted == isCompleted(after)
      w1 == saveProgress([w EXCEPT !.tierConfig[ti].milestones[mi] = after])
      result == [success |-> TRUE,
                 milestoneProgress |->
                   [name |-> after.name, progress |-> after.progress,
                    required |-> after.requiredWorkouts,
                    justCompleted |-> justCompleted(wasCompleted, nowCompleted)]]
  IN IF tierIsCompleted(w1.tierConfig[ti])
     THEN LET lu == checkTierLevelUp(w1, workout.tier) IN
          IF lu.threw
          THEN [w |-> lu.w, trigger |-> lu.trigger, result |-> Thrown]
          ELSE [w |-> lu.w, trigger |-> lu.trigger,
                result |-> [success |-> TRUE,
                            milestoneProgress |-> result.milestoneProgress,
                            tierLevelUp |-> lu.ret]]
     ELSE [w |-> w1, trigger |-> NoTrigger, result |-> result]

\* ------------------------------------------------------------------------
\* Application start and DebugInterface (src/js/app.js, src/js/debug)
\* ------------------------------------------------------------------------
\* Page load: a new AppContainer (new ProgressionService, hence a new
\* TierConfiguration); init() runs main.initialize() when a profile exists.
pageLoad(w) ==
  LET w0 == [w EXCEPT !.tierConfig = NewTierConfiguration] IN
  IF w0.athlete.exists THEN initialize(w0) ELSE w0

\* _refreshAlpineState: re-initialize from storage, or a full page reload
\* when the Alpine component is not found
refreshAlpineState(w, viaReload) == IF viaReload THEN pageLoad(w) ELSE initialize(w)

\* the while loop of _tierup for one cumulative milestone: [w, trigger]
RECURSIVE fillMilestone(_, _, _, _, _)
fillMilestone(w, trig, tierLevel, ti, milestoneType) ==
  LET mi == findMilestoneByType(w.tierConfig[ti], milestoneType)
      milestone == w.tierConfig[ti].milestones[mi]
  IN IF milestone.progress < milestone.requiredWorkouts
     THEN LET types == getWorkoutTypesForMilestone(w.tierConfig, tierLevel, milestoneType)
              out == addWorkoutProgress(w, [type |-> types[1],
                                            milestoneType |-> milestoneType,
                                            tier |-> tierLevel])
          IN fillMilestone(out.w, IF out.trigger = NoTrigger THEN trig ELSE out.trigger,
                           tierLevel, ti, milestoneType)
     ELSE [w |-> w, trigger |-> trig]

milestoneOrder == <<"bronze", "silver", "gold", "platinum", "diamond">>

\* the for loop of _tierup over milestoneOrder[k..]: [w, trigger]
RECURSIVE fillTier(_, _, _, _, _)
fillTier(w, trig, tierLevel, ti, k) ==
  IF k > Len(milestoneOrder) THEN [w |-> w, trigger |-> trig]
  ELSE LET mi == findMilestoneByType(w.tierConfig[ti], milestoneOrder[k]) IN
       IF mi = 0 THEN fillTier(w, trig, tierLevel, ti, k + 1)
       ELSE LET milestone == w.tierConfig[ti].milestones[mi] IN
            IF usesBenchmarks(milestone)
            THEN fillTier([w EXCEPT !.tierConfig[ti].milestones[mi].benchmarksCompleted =
                                      Indices(Len(milestone.benchmarkWorkouts))],
                          trig, tierLevel, ti, k + 1)
            ELSE LET f == fillMilestone(w, trig, tierLevel, ti, milestoneOrder[k]) IN
                 fillTier(f.w, f.trigger, tierLevel, ti, k + 1)

\* _tierup: [w, result, trigger]
tierup(w, viaReload) ==
  IF ~w.athlete.exists
  THEN [w |-> w, trigger |-> NoTrigger, result |-> Thrown]
  ELSE
  LET w0 == initialize(w)
      tierLevel == w.athlete.currentTier
      ti == getTierByLevel(w0.tierConfig, tierLevel)
  IN IF ti = 0
     THEN [w |-> w0, trigger |-> NoTrigger, result |-> Thrown]
     ELSE
     LET f == fillTier(w0, NoTrigger, tierLevel, ti, 1)
         nextTierLevel == tierLevel + 1
     IN IF tierIsCompleted(f.w.tierConfig[ti])
        THEN IF nextTierLevel < tierCount(f.w.tierConfig)
             THEN LET w1 == updateTier(f.w, nextTierLevel)
                      nextTier == getTierByLevel(w1.tierConfig, nextTierLevel)
                      w2 == saveProgress([w1 EXCEPT !.tierConfig[nextTier] =
                                            resetProgress(w1.tierConfig[nextTier])])
                  IN [w |-> refreshAlpineState(w2, viaReload),
                      trigger |-> Triggered(tierLevel, f.w.tierConfig),
                      result |-> [success |-> TRUE]]
             ELSE [w |-> refreshAlpineState(f.w, viaReload),
                   trigger |-> f.trigger, result |-> [success |-> TRUE]]
        ELSE [w |-> refreshAlpineState(f.w, viaReload),
              trigger |-> f.trigger, result |-> [success |-> TRUE]]

\* _tierclear: [w, result, trigger]
tierclear(w, viaReload) ==
  IF ~w.athlete.exists
  THEN [w |-> w, trigger |-> NoTrigger, result |-> Thrown]
  ELSE
  LET w0 == initialize(updateTier(w, 0))
      tier0 == getTierByLevel(w0.tierConfig, 0)
      w1 == IF tier0 # 0
            THEN [w0 EXCEPT !.tierConfig[tier0] = resetProgress(w0.tierConfig[tier0])]
            ELSE w0
  IN [w |-> refreshAlpineState(saveProgress(w1), viaReload),
      trigger |-> NoTrigger, result |-> [success |-> TRUE]]

\* _reset: clear the stores, then reload the page: [w, result, trigger]
factoryReset(w) ==
  [w |-> pageLoad([w EXCEPT !.progressStore = << >>, !.athlete = NoAthlete]),
   trigger |-> NoTrigger, result |-> [success |-> TRUE]]

\* launchApp: saveAthlete() creates the athlete record, then main.initialize()
launchApp(w) ==
  [w |-> initialize(createAthlete(w)), trigger |-> NoTrigger,
   result |-> [success |-> TRUE]]

\* ------------------------------------------------------------------------
\* The state machine
\* ------------------------------------------------------------------------
World == [tierConfig |-> tierConfig, progressStore |-> progressStore, athlete |-> athlete]

\* The inputs of the event entry points
EventTiers == 0..NumTiers
EventMilestoneTypes == {"bronze", "platinum", "gold"}
EventWorkoutTypes == {"Walking", "Running"}
EventBenchmarkIndices == (0 - 1)..NumBenchmarks

OrdinaryEvents ==
  [type : EventWorkoutTypes, milestoneType : EventMilestoneTypes, tier : EventTiers]

BenchmarkEvents == [milestoneType : EventMilestoneTypes, tier : EventTiers]

IdleMilestone == NewMilestone("bronze", "First Steps", MaxRequired, << >>, << >>)

\* new MainScreenViewModel(...): null is << >>
NewMainScreenViewModel ==
  [isLoading |-> FALSE, showProofMethodModal |-> FALSE,
   selectedMilestone |-> "", selectedWorkoutType |-> "",
   isBenchmarkMilestone |-> FALSE, selectedBenchmarkIndex |-> << >>,
   currentTier |-> 0]

\* no object of the reference level exists
NoObjects ==
  [arrays |-> << >>, tiers |-> << >>, made |-> << >>, data |-> << >>, stored |-> << >>]

\* a call slot with no call in it
Idle == [pc |-> "idle"]

NoCalls == [id \in 1..MaxCalls |-> Idle]

Init ==
  /\ tierConfig = NewTierConfiguration
  /\ progressStore = << >>
  /\ athlete = NoAthlete
  /\ lastCall = [op |-> "none"]
  /\ lastResult = [none |-> TRUE]
  /\ atTrigger = NoTrigger
  /\ m = IdleMilestone
  /\ vm = NewMainScreenViewModel
  /\ calls = NoCalls
  /\ workouts = << >>
  /\ heap = NoObjects

\* the state an operation leaves, with what it was called with and returned
Leaves(call, out) ==
  /\ tierConfig' = out.w.tierConfig
  /\ progressStore' = out.w.progressStore
  /\ athlete' = out.w.athlete
  /\ lastCall' = call
  /\ lastResult' = out.result
  /\ atTrigger' = out.trigger
  /\ UNCHANGED <<m, vm, calls, workouts, heap>>

\* Setup screen: launchApp
LaunchApp == Leaves([op |-> "launchApp"], launchApp(World))

\* Browser reload of the page
PageLoad ==
  Leaves([op |-> "pageLoad"],
         [w |-> pageLoad(World), trigger |-> NoTrigger, result |-> [success |-> TRUE]])

\* An ordinary-workout event; the main screen exists only with a profile
AddWorkoutProgress ==
  /\ athlete.exists
  /\ \E workout \in OrdinaryEvents :
       Leaves([op |-> "addWorkoutProgress"], addWorkoutProgress(World, workout))

\* A benchmark-completion event
CompleteBenchmark ==
  /\ athlete.exists
  /\ \E workout \in BenchmarkEvents, benchmarkIndex \in EventBenchmarkIndices :
       Leaves([op |-> "completeBenchmark"],
              completeBenchmarkEvent(World, workout, benchmarkIndex))

ResetAllProgress ==
  Leaves([op |-> "resetAllProgress", currentTier |-> getCurrentTier(World),
          used |-> tierConfig # NewTierConfiguration],
         resetAllProgress(World))

\* Hash commands
DebugTierup ==
  \E viaReload \in BOOLEAN : Leaves([op |-> "tierup"], tierup(World, viaReload))

DebugTierclear ==
  \E viaReload \in BOOLEAN : Leaves([op |-> "tierclear"], tierclear(World, viaReload))

DebugReset == Leaves([op |-> "reset"], factoryReset(World))

Next ==
  \/ LaunchApp
  \/ PageLoad
  \/ AddWorkoutProgress
  \/ CompleteBenchmark
  \/ ResetAllProgress
  \/ DebugTierup
  \/ DebugTierclear
  \/ DebugReset

Spec == Init /\ [][Next]_vars

\* ------------------------------------------------------------------------
\* The engine alone: the events of the main screen, from the state that
\* launchApp leaves on a fresh installation
\* ------------------------------------------------------------------------
InitE ==
  /\ tierConfig = launchApp([tierConfig |-> NewTierConfiguration,
                             progressStore |-> << >>,
                             athlete |-> NoAthlete]).w.tierConfig
  /\ progressStore = << >>
  /\ athlete = [exists |-> TRUE, currentTier |-> 0]
  /\ lastCall = [op |-> "launchApp"]
  /\ lastResult = [success |-> TRUE]
  /\ atTrigger = NoTrigger
  /\ m = IdleMilestone
  /\ vm = NewMainScreenViewModel
  /\ calls = NoCalls
  /\ workouts = << >>
  /\ heap = NoObjects

\* loadAvailableMilestones: the main screen asks for the milestones
GetAvailableMilestones ==
  /\ athlete.exists
  /\ Leaves([op |-> "getAvailableMilestones", before |-> World],
            getAvailableMilestonesCall(World))

\* refreshProgress: the main screen asks for the summary of the tier
GetTierProgressSummary ==
  /\ athlete.exists
  /\ Leaves([op |-> "getTierProgressSummary", before |-> World],
            getTierProgressSummaryCall(World))

NextE ==
  \/ AddWorkoutProgress
  \/ CompleteBenchmark
  \/ ResetAllProgress
  \/ GetAvailableMilestones
  \/ GetTierProgressSummary

SpecE == InitE /\ [][NextE]_vars

\* ------------------------------------------------------------------------
\* The engine with a storage whose writes can fail
\* ------------------------------------------------------------------------
\* nothing in memory is waiting to be stored: the store holds the record of
\* the configuration, or no record and the configuration is the fresh one
Durable ==
  \/ progressStore = << >> /\ tierConfig = NewTierConfiguration
  \/ Len(progressStore) = 1 /\ fromJSON(progressStore[1]) = tierConfig

\* one rejected write at a time: the write of an event is rejected while
\* every earlier update has been stored; the event is one the main screen
\* submits, a workout for the athlete's tier
AddWorkoutProgressSaveFails ==
  /\ athlete.exists
  /\ Durable
  /\ \E workout \in OrdinaryEvents :
       /\ workout.tier = athlete.currentTier
       /\ Leaves([op |-> "addWorkoutProgress"], addWorkoutProgressSaveFails(World, workout))

NextF == AddWorkoutProgress \/ CompleteBenchmark \/ AddWorkoutProgressSaveFails

SpecF == InitE /\ [][NextF]_vars

\* ------------------------------------------------------------------------
\* The application started on a store that already holds a progress record:
\* one written by saveProgress(), or one written by the release that had no
\* benchmarks (the database version is 1 in both, the record is kept)
\* ------------------------------------------------------------------------
\* a milestone entry as written before benchmarks existed
OlderMilestoneRecord(ms) ==
  [type |-> ms.type, name |-> ms.name, requiredWorkouts |-> ms.requiredWorkouts,
   workoutRequirements |-> ms.workoutRequirements, progress |-> ms.progress]

OlderRecord(cfg) ==
  [id |-> progressKey,
   tiers |-> [ti \in 1..Len(cfg) |->
     [level |-> cfg[ti].level, name |-> cfg[ti].name,
      milestones |-> [mi \in 1..Len(cfg[ti].milestones) |->
                        OlderMilestoneRecord(cfg[ti].milestones[mi])]]]]

\* configurations that differ from the fresh one in the mutable fields of
\* tier 0
UsedConfigurations ==
  { [NewTierConfiguration EXCEPT ![1].milestones[1].progress = p,
                                 ![1].milestones[2].progress = q,
                                 ![1].milestones[2].benchmarksCompleted = Indices(done)] :
      p \in 0..MaxRequired, q \in 0..1, done \in 0..NumBenchmarks }

SavedRecords ==
  {saveProgress([tierConfig |-> cfg, progressStore |-> << >>,
                 athlete |-> NoAthlete]).progressStore[1] : cfg \in UsedConfigurations}
    \cup {OlderRecord(cfg) : cfg \in UsedConfigurations}

InitR ==
  /\ tierConfig = NewTierConfiguration
  /\ progressStore \in {<< r >> : r \in SavedRecords}
  /\ athlete = [exists |-> TRUE, currentTier |-> 0]
  /\ lastCall = [op |-> "none"]
  /\ lastResult = [none |-> TRUE]
  /\ atTrigger = NoTrigger
  /\ m = IdleMilestone
  /\ vm = NewMainScreenViewModel
  /\ calls = NoCalls
  /\ workouts = << >>
  /\ heap = NoObjects

\* init() has run
Loaded == lastCall.op # "none"

NextR ==
  \/ PageLoad
  \/ (Loaded /\ AddWorkoutProgress)
  \/ (Loaded /\ ResetAllProgress)

SpecR == InitR /\ [][NextR]_vars

\* ------------------------------------------------------------------------
\* A single Milestone object driven through its own methods, from every
\* content its public fields can hold
\* ------------------------------------------------------------------------
MaxProgress == MaxRequired + 1

RECURSIVE SeqsUpTo(_, _)
SeqsUpTo(S, n) ==
  IF n = 0 THEN {<< >>}
  ELSE LET shorter == SeqsUpTo(S, n - 1) IN
       shorter \cup {Append(q, x) : q \in shorter, x \in S}

\* the indices completeBenchmark is called with
MilestoneIndices == (0 - 1)..MaxBenchmarks

MilestoneObjects ==
  { [NewMilestone("platinum", "Consistent", req, wr,
                  [k \in 1..nb |-> [name |-> BenchmarkNames[k]]])
       EXCEPT !.progress = p, !.benchmarksCompleted = bc] :
      req \in {0, MaxRequired},
      wr \in {<< [workoutType |-> "Walking"] >>},
      nb \in 0..MaxBenchmarks,
      p \in {0, MaxProgress},
      bc \in SeqsUpTo(0..MaxBenchmarks, MaxBenchmarks) }

InitM ==
  /\ tierConfig = NewTierConfiguration
  /\ progressStore = << >>
  /\ athlete = NoAthlete
  /\ lastCall = [op |-> "none"]
  /\ lastResult = [none |-> TRUE]
  /\ atTrigger = NoTrigger
  /\ m \in MilestoneObjects
  /\ vm = NewMainScreenViewModel
  /\ calls = NoCalls
  /\ workouts = << >>
  /\ heap = NoObjects

Frame == UNCHANGED <<tierConfig, progressStore, athlete, lastResult, atTrigger, vm, calls, workouts, heap>>

MAddProgress ==
  /\ m' = addProgress(m, 1)
  /\ lastCall' = [op |-> "Milestone.addProgress", before |-> m]
  /\ Frame

MCompleteBenchmark ==
  \E benchmarkIndex \in MilestoneIndices :
    /\ m' = completeBenchmark(m, benchmarkIndex)
    /\ lastCall' = [op |-> "Milestone.completeBenchmark", benchmarkIndex |-> benchmarkIndex,
                    before |-> m]
    /\ Frame

MReset ==
  /\ m' = reset(m)
  /\ lastCall' = [op |-> "Milestone.reset", before |-> m]
  /\ Frame

MRoundTrip ==
  /\ m' = MilestoneFromJSON(MilestoneToJSON(m))
  /\ lastCall' = [op |-> "Milestone.roundTrip", before |-> m]
  /\ Frame

NextM == MAddProgress \/ MCompleteBenchmark \/ MReset \/ MRoundTrip

SpecM == InitM /\ [][NextM]_vars

\* ------------------------------------------------------------------------
\* A single Tier object (held as a configuration of one tier) driven through
\* the methods of its milestones, from tiers of zero, one or two milestones
\* ------------------------------------------------------------------------
\* <<requiredWorkouts, progress>> of a cumulative milestone
CumulativeShapes ==
  {c \in (0..MaxRequired) \X (0..MaxRequired) : c[2] <= c[1]} \cup {<<10, 4>>, <<10, 5>>}

\* <<requiredWorkouts, number of benchmarks, completed benchmarks>>
BenchmarkShapes ==
  {b \in {1, 7, 20} \X (1..MaxBenchmarks) \X (0..MaxBenchmarks) : b[3] <= b[2]}
    \cup {<<20, 4, 1>>, <<20, 4, 2>>}

CumulativeMilestone(shape) ==
  [NewMilestone("bronze", "First Steps", shape[1],
                << [workoutType |-> "Walking"] >>, << >>)
     EXCEPT !.progress = shape[2]]

BenchmarkMilestone(shape) ==
  [NewMilestone("platinum", "Consistent", shape[1], << >>,
                [k \in 1..shape[2] |-> [name |-> "Endurance Challenge"]])
     EXCEPT !.benchmarksCompleted = Indices(shape[3])]

TierObjects ==
  {NewTier(0, "Beginner", << >>)}
    \cup {NewTier(0, "Beginner", << CumulativeMilestone(c) >>) : c \in CumulativeShapes}
    \cup {NewTier(0, "Beginner", << BenchmarkMilestone(b) >>) : b \in BenchmarkShapes}
    \cup {NewTier(0, "Beginner", << CumulativeMilestone(c), BenchmarkMilestone(b) >>) :
            c \in CumulativeShapes, b \in BenchmarkShapes}

InitT ==
  /\ tierConfig \in {<< t >> : t \in TierObjects}
  /\ progressStore = << >>
  /\ athlete = NoAthlete
  /\ lastCall = [op |-> "none"]
  /\ lastResult = [none |-> TRUE]
  /\ atTrigger = NoTrigger
  /\ m = IdleMilestone
  /\ vm = NewMainScreenViewModel
  /\ calls = NoCalls
  /\ workouts = << >>
  /\ heap = NoObjects

FrameT == UNCHANGED <<progressStore, athlete, lastResult, atTrigger, m, vm, calls, workouts, heap>>

TAddProgress ==
  \E mi \in 1..Len(tierConfig[1].milestones) :
    /\ tierConfig' = [tierConfig EXCEPT ![1].milestones[mi] = addProgress(@, 1)]
    /\ lastCall' = [op |-> "Tier.addProgress"]
    /\ FrameT

TCompleteBenchmark ==
  \E mi \in 1..Len(tierConfig[1].milestones) :
    \E benchmarkIndex \in 0..(Len(tierConfig[1].milestones[mi].benchmarkWorkouts) - 1) :
      /\ tierConfig' = [tierConfig EXCEPT ![1].milestones[mi] =
                          completeBenchmark(@, benchmarkIndex)]
      /\ lastCall' = [op |-> "Tier.completeBenchmark"]
      /\ FrameT

TResetProgress ==
  /\ tierConfig' = [tierConfig EXCEPT ![1] = resetProgress(@)]
  /\ lastCall' = [op |-> "Tier.resetProgress"]
  /\ FrameT

NextT == TAddProgress \/ TCompleteBenchmark \/ TResetProgress

SpecT == InitT /\ [][NextT]_vars

\* ------------------------------------------------------------------------
\* The event entry points step by step: a call runs from one await to the
\* next (createWorkout, the first putItem, updateTier, the second putItem),
\* and the steps of the calls in progress interleave
\* ------------------------------------------------------------------------
\* an event: the workout and, for a benchmark completion, <<benchmarkIndex>>
EngineEvents ==
  [workout : OrdinaryEvents, benchmarkIndex : {<< >>}]
    \cup [workout : [type : {"Benchmark"}, milestoneType : EventMilestoneTypes,
                     tier : EventTiers],
          benchmarkIndex : {<< i >> : i \in EventBenchmarkIndices}]

\* the error of the validation steps, << >> when the event is accepted
rejection(cfg, ev) ==
  LET ti == getTierByLevel(cfg, ev.workout.tier) IN
  IF ti = 0 THEN <<"Invalid tier">>
  ELSE
  LET mi == findMilestoneByType(cfg[ti], ev.workout.milestoneType) IN
  IF mi = 0 THEN <<"Invalid milestone">>
  ELSE
  LET milestone == cfg[ti].milestones[mi] IN
  IF ev.benchmarkIndex = << >>
  THEN IF ~acceptsWorkoutType(milestone, ev.workout.type)
       THEN <<ev.workout.type, "does not count towards", milestone.name>>
       ELSE << >>
  ELSE IF ~validBenchmarkIndex(milestone, ev.benchmarkIndex[1])
       THEN <<"Invalid benchmark index">>
       ELSE << >>

\* a call that has returned result to its caller
ReturnedCall(ev, result, trigger) ==
  [pc |-> "returned", ev |-> ev, result |-> result, trigger |-> trigger]

\* enterEvent with saveProgress() before the update of the milestone: the
\* snapshot handed to putItem is the configuration as it was
enterEventSaveFirst(w, ev) ==
  LET error == rejection(w.tierConfig, ev) IN
  IF error # << >>
  THEN [w |-> w,
        call |-> ReturnedCall(ev, [success |-> FALSE, error |-> error], NoTrigger)]
  ELSE
  LET ti == getTierByLevel(w.tierConfig, ev.workout.tier)
      mi == findMilestoneByType(w.tierConfig[ti], ev.workout.milestoneType)
      milestone == w.tierConfig[ti].milestones[mi]
      after == IF ev.benchmarkIndex = << >> THEN addProgress(milestone, 1)
               ELSE completeBenchmark(milestone, ev.benchmarkIndex[1])
      w1 == [w EXCEPT !.tierConfig[ti].milestones[mi] = after]
  IN [w |-> w1,
      call |-> [pc |-> "saveProgress", ev |-> ev,
                record |-> saveProgress(w).progressStore[1],
                justCompleted |-> justCompleted(isCompleted(milestone), isCompleted(after))]]

\* the call from its entry to the await of the first putItem: the
\* validation, the update of the milestone and the snapshot that
\* saveProgress() hands to putItem: [w, call]
enterEvent(w, ev) ==
  LET error == rejection(w.tierConfig, ev) IN
  IF error # << >>
  THEN [w |-> w,
        call |-> ReturnedCall(ev, [success |-> FALSE, error |-> error], NoTrigger)]
  ELSE
  LET ti == getTierByLevel(w.tierConfig, ev.workout.tier)
      mi == findMilestoneByType(w.tierConfig[ti], ev.workout.milestoneType)
      milestone == w.tierConfig[ti].milestones[mi]
      after == IF ev.benchmarkIndex = << >> THEN addProgress(milestone, 1)
               ELSE completeBenchmark(milestone, ev.benchmarkIndex[1])
      w1 == [w EXCEPT !.tierConfig[ti].milestones[mi] = after]
  IN [w |-> w1,
      call |-> [pc |-> "saveProgress", ev |-> ev,
                record |-> saveProgress(w1).progressStore[1],
                justCompleted |-> justCompleted(isCompleted(milestone), isCompleted(after))]]

\* from the first putItem resolving to the await of updateTier (or to the
\* return): the record is stored, the result is built from the milestone as
\* it is now, and _checkTierLevelUp resets the next tier: [w, call]
firstSaveResolved(w, call) ==
  LET ev == call.ev
      ti == getTierByLevel(w.tierConfig, ev.workout.tier)
      mi == findMilestoneByType(w.tierConfig[ti], ev.workout.milestoneType)
      milestone == w.tierConfig[ti].milestones[mi]
      w1 == [w EXCEPT !.progressStore = << call.record >>]
      result == [success |-> TRUE,
                 milestoneProgress |->
                   [name |-> milestone.name, progress |-> milestone.progress,
                    required |-> milestone.requiredWorkouts,
                    justCompleted |-> call.justCompleted]]
      nextTierLevel == ev.workout.tier + 1
      nextTier == getTierByLevel(w.tierConfig, nextTierLevel)
  IN IF ~tierIsCompleted(w1.tierConfig[ti])
     THEN [w |-> w1, call |-> ReturnedCall(ev, result, NoTrigger)]
     ELSE IF nextTierLevel >= tierCount(w1.tierConfig)
     THEN [w |-> w1,
           call |-> ReturnedCall(ev,
                      [success |-> TRUE, milestoneProgress |-> result.milestoneProgress,
                       tierLevelUp |-> [leveledUp |-> FALSE, maxTierReached |-> TRUE]],
                      NoTrigger)]
     ELSE [w |-> [w1 EXCEPT !.tierConfig[nextTier] = resetProgress(w1.tierConfig[nextTier])],
           call |-> [pc |-> "updateTier", ev |-> ev, result |-> result,
                     trigger |-> Triggered(ev.workout.tier, w1.tierConfig)]]

\* from updateTier resolving to the await of the second putItem: the
\* athlete record is written and saveProgress() takes its snapshot: [w, call]
updateTierResolved(w, call) ==
  IF updateTierThrows(w)
  THEN [w |-> w, call |-> ReturnedCall(call.ev, Thrown, call.trigger)]
  ELSE LET w1 == updateTier(w, call.ev.workout.tier + 1) IN
       [w |-> w1,
        call |-> [pc |-> "saveProgressAgain", ev |-> call.ev, result |-> call.result,
                  trigger |-> call.trigger,
                  record |-> saveProgress(w1).progressStore[1]]]

\* from the second putItem resolving to the return: [w, call]
secondSaveResolved(w, call) ==
  LET nextTierLevel == call.ev.workout.tier + 1
      nextTier == getTierByLevel(w.tierConfig, nextTierLevel)
  IN [w |-> [w EXCEPT !.progressStore = << call.record >>],
      call |-> ReturnedCall(call.ev,
                 [success |-> TRUE,
                  milestoneProgress |-> call.result.milestoneProgress,
                  tierLevelUp |-> [leveledUp |-> TRUE, newTier |-> nextTierLevel,
                                   tierName |-> w.tierConfig[nextTier].name]],
                 call.trigger)]

\* the entry point an event goes to
EntryPoint(ev) ==
  IF ev.benchmarkIndex = << >> THEN "addWorkoutProgress" ELSE "completeBenchmark"

\* the positions at which a call is inside the engine
EnginePositions == {"saveProgress", "updateTier", "saveProgressAgain"}

InProgress == {id \in 1..MaxCalls : calls[id].pc # "idle"}

InEngine == {id \in 1..MaxCalls : calls[id].pc \in EnginePositions}

\* the slot a new call takes
FreeSlot == CHOOSE id \in 1..MaxCalls : calls[id].pc = "idle" /\ \A j \in 1..(id - 1) : calls[j].pc # "idle"

\* selectProofMethodAndSubmit from the return of the engine call to its
\* end: the modals are closed and the selection is cleared on success, and
\* finally isLoading is false
submitResolved(v, result) ==
  IF Returned(result) /\ result.success
  THEN [v EXCEPT !.showProofMethodModal = FALSE, !.selectedMilestone = "",
                 !.selectedWorkoutType = "", !.selectedBenchmarkIndex = << >>,
                 !.isLoading = FALSE]
  ELSE [v EXCEPT !.isLoading = FALSE]

\* the state a step of call id leaves; a call that has returned hands its
\* result to its caller, which runs on to its end
Step(id, caller, out) ==
  /\ tierConfig' = out.w.tierConfig
  /\ progressStore' = out.w.progressStore
  /\ athlete' = out.w.athlete
  /\ IF out.call.pc = "returned"
     THEN /\ calls' = [calls EXCEPT ![id] = Idle]
          /\ lastCall' = [op |-> EntryPoint(out.call.ev)]
          /\ lastResult' = out.call.result
          /\ atTrigger' = out.call.trigger
          /\ vm' = IF caller = "submit" THEN submitResolved(vm, out.call.result) ELSE vm
     ELSE /\ calls' = [calls EXCEPT ![id] = out.call @@ [caller |-> caller]]
          /\ UNCHANGED <<lastCall, lastResult, atTrigger, vm>>
  /\ UNCHANGED <<m, workouts, heap>>

\* A caller that awaits each call before it makes the next one
BeginEvent ==
  /\ athlete.exists
  /\ InProgress = {}
  /\ \E ev \in EngineEvents : Step(FreeSlot, "await", enterEvent(World, ev))

FirstSaveResolves ==
  \E id \in 1..MaxCalls :
    /\ calls[id].pc = "saveProgress"
    /\ Step(id, calls[id].caller, firstSaveResolved(World, calls[id]))

UpdateTierResolves ==
  \E id \in 1..MaxCalls :
    /\ calls[id].pc = "updateTier"
    /\ Step(id, calls[id].caller, updateTierResolved(World, calls[id]))

SecondSaveResolves ==
  \E id \in 1..MaxCalls :
    /\ calls[id].pc = "saveProgressAgain"
    /\ Step(id, calls[id].caller, secondSaveResolved(World, calls[id]))

NextS == BeginEvent \/ FirstSaveResolves \/ UpdateTierResolves \/ SecondSaveResolves

SpecS == InitE /\ [][NextS]_vars

\* ------------------------------------------------------------------------
\* The submit flow of the main screen: the selection modal, the proof-method
\* modal and selectProofMethodAndSubmit, whose awaits let the steps of two
\* invocations interleave
\* ------------------------------------------------------------------------
\* the workout types offered for a milestone: its own, or all of them
OfferedWorkoutTypes(ms) ==
  IF Len(workoutTypes(ms)) > 0 THEN {workoutTypes(ms)[k] : k \in 1..Len(workoutTypes(ms))}
  ELSE WorkoutTypes

\* startAddWorkout, selectMilestone and selectWorkout: a milestone of the
\* displayed tier and a workout type or a benchmark are selected and the
\* proof-method modal is shown
SelectWorkout ==
  /\ athlete.exists
  /\ ~vm.showProofMethodModal
  /\ getTierByLevel(tierConfig, vm.currentTier) # 0
  /\ \E mi \in 1..Len(tierConfig[vm.currentTier + 1].milestones) :
       LET ms == tierConfig[vm.currentTier + 1].milestones[mi] IN
       IF usesBenchmarks(ms)
       THEN \E index \in 0..(Len(ms.benchmarkWorkouts) - 1) :
              vm' = [vm EXCEPT !.selectedMilestone = ms.type,
                               !.isBenchmarkMilestone = TRUE,
                               !.selectedWorkoutType = "",
                               !.selectedBenchmarkIndex = << index >>,
                               !.showProofMethodModal = TRUE]
       ELSE \E type \in OfferedWorkoutTypes(ms) :
              vm' = [vm EXCEPT !.selectedMilestone = ms.type,
                               !.isBenchmarkMilestone = FALSE,
                               !.selectedWorkoutType = type,
                               !.selectedBenchmarkIndex = << >>,
                               !.showProofMethodModal = TRUE]
  /\ UNCHANGED <<tierConfig, progressStore, athlete, lastCall, lastResult, atTrigger,
                 m, calls, workouts, heap>>

\* selectProofMethodAndSubmit from its entry to the await of createWorkout
SelectProofMethodAndSubmit ==
  /\ vm.showProofMethodModal
  /\ \E id \in 1..MaxCalls : calls[id].pc = "idle"
  /\ vm.selectedMilestone # ""
  /\ IF vm.isBenchmarkMilestone THEN vm.selectedBenchmarkIndex # << >>
     ELSE vm.selectedWorkoutType # ""
  /\ vm' = [vm EXCEPT !.isLoading = TRUE]
  /\ calls' = [calls EXCEPT ![FreeSlot] =
       [pc |-> "createWorkout", caller |-> "submit",
        benchmark |-> vm.isBenchmarkMilestone,
        workout |-> [type |-> IF vm.isBenchmarkMilestone THEN "Benchmark"
                              ELSE vm.selectedWorkoutType,
                     milestoneType |-> vm.selectedMilestone,
                     tier |-> vm.currentTier]]]
  /\ UNCHANGED <<tierConfig, progressStore, athlete, lastCall, lastResult, atTrigger, m, workouts, heap>>

\* createWorkout has resolved: the engine is called with the workout and,
\* for a benchmark, with selectedBenchmarkIndex as it is now (null is not a
\* position of benchmarkWorkouts)
CreateWorkoutResolves ==
  \E id \in 1..MaxCalls :
    /\ calls[id].pc = "createWorkout"
    /\ LET benchmarkIndex ==
             IF ~calls[id].benchmark THEN << >>
             ELSE IF vm.selectedBenchmarkIndex = << >> THEN << 0 - 1 >>
             ELSE vm.selectedBenchmarkIndex
       IN Step(id, "submit",
               enterEvent(World, [workout |-> calls[id].workout,
                                  benchmarkIndex |-> benchmarkIndex]))

\* the level that refreshProgress() would display
summaryTierLevel(w) ==
  IF getTierByLevel(w.tierConfig, getCurrentTier(w)) = 0 THEN 0
  ELSE w.tierConfig[getCurrentTier(w) + 1].level

\* refreshProgress(), started by _processWorkoutResult and not awaited
RefreshProgress ==
  /\ vm.currentTier # summaryTierLevel(World)
  /\ vm' = [vm EXCEPT !.currentTier = summaryTierLevel(World)]
  /\ UNCHANGED <<tierConfig, progressStore, athlete, lastCall, lastResult, atTrigger,
                 m, calls, workouts, heap>>

NextC ==
  \/ SelectWorkout
  \/ SelectProofMethodAndSubmit
  \/ CreateWorkoutResolves
  \/ FirstSaveResolves
  \/ UpdateTierResolves
  \/ SecondSaveResolves
  \/ RefreshProgress

SpecC == InitE /\ [][NextC]_vars

\* ------------------------------------------------------------------------
\* The athlete record (src/js/repositories/AthleteRepository.js) written by
\* the setup screen (src/unnamed/part_007) and by a level-up: each is a
\* getItem followed by a putItem of the whole record, and the puts are
\* stored in the order they were issued
\* ------------------------------------------------------------------------
ProfileNames == {"Ada", "Bo"}

InitA ==
  /\ tierConfig = NewTierConfiguration
  /\ progressStore = << >>
  /\ athlete = [exists |-> TRUE, currentTier |-> 0, name |-> "Ada"]
  /\ lastCall = [op |-> "launchApp"]
  /\ lastResult = [success |-> TRUE]
  /\ atTrigger = NoTrigger
  /\ m = IdleMilestone
  /\ vm = NewMainScreenViewModel
  /\ calls = NoCalls
  /\ workouts = << >>
  /\ heap = NoObjects

\* the puts of the athlete record that are issued and not yet stored
PendingPuts == {id \in 1..MaxCalls : calls[id].pc \in {"saveAthlete", "updateTierPut"}}

\* the positions with the puts issued before a stored one moved up
putStored(cs, id) ==
  [j \in 1..MaxCalls |->
     IF j # id /\ cs[j].pc \in {"saveAthlete", "updateTierPut"}
     THEN [cs[j] EXCEPT !.ticket = @ - 1] ELSE cs[j]]

\* AthleteSetupViewModel.saveAthlete: the record that saveAthlete(existingAthlete)
\* hands to putItem, from the record that getCurrentAthlete() returned
saveAthleteRecord(record, name) == [record EXCEPT !.name = name]

\* An event of the main screen: a workout or a benchmark for the athlete's tier
SubmitEvent ==
  /\ \A id \in 1..MaxCalls : calls[id].pc \notin EnginePositions \cup {"updateTierPut"}
  /\ \E id \in 1..MaxCalls : calls[id].pc = "idle"
  /\ \E ev \in EngineEvents :
       /\ ev.workout.tier = athlete.currentTier
       /\ Step(FreeSlot, "await", enterEvent(World, ev))

\* saveAthlete of the setup screen up to the await of putItem:
\* getCurrentAthlete() has resolved and the put is issued
SaveAthleteReads ==
  /\ \A id \in 1..MaxCalls : calls[id].pc # "saveAthlete"
  /\ \E id \in 1..MaxCalls : calls[id].pc = "idle"
  /\ \E name \in ProfileNames :
       calls' = [calls EXCEPT ![FreeSlot] =
                   [pc |-> "saveAthlete", caller |-> "setup",
                    record |-> saveAthleteRecord(athlete, name),
                    ticket |-> Cardinality(PendingPuts)]]
  /\ UNCHANGED <<tierConfig, progressStore, athlete, lastCall, lastResult, atTrigger, m, vm, workouts, heap>>

\* the put of saveAthlete is stored
SaveAthleteWrites ==
  \E id \in 1..MaxCalls :
    /\ calls[id].pc = "saveAthlete"
    /\ calls[id].ticket = 0
    /\ athlete' = calls[id].record
    /\ calls' = [putStored(calls, id) EXCEPT ![id] = Idle]
    /\ lastCall' = [op |-> "saveAthlete"]
    /\ UNCHANGED <<tierConfig, progressStore, lastResult, atTrigger, m, vm, workouts, heap>>

\* updateTier of a level-up up to the await of putItem: getCurrentAthlete()
\* has resolved, currentTier is assigned and the put is issued
UpdateTierReads ==
  \E id \in 1..MaxCalls :
    /\ calls[id].pc = "updateTier"
    /\ calls' = [calls EXCEPT ![id] =
                   [pc |-> "updateTierPut", caller |-> calls[id].caller,
                    ev |-> calls[id].ev, result |-> calls[id].result,
                    trigger |-> calls[id].trigger,
                    record |-> updateTier([athlete |-> athlete],
                                          calls[id].ev.workout.tier + 1).athlete,
                    ticket |-> Cardinality(PendingPuts)]]
    /\ UNCHANGED <<tierConfig, progressStore, athlete, lastCall, lastResult, atTrigger, m, vm, workouts, heap>>

\* the put of updateTier is stored and saveProgress() takes its snapshot
UpdateTierWrites ==
  \E id \in 1..MaxCalls :
    /\ calls[id].pc = "updateTierPut"
    /\ calls[id].ticket = 0
    /\ athlete' = calls[id].record
    /\ calls' = [putStored(calls, id) EXCEPT ![id] =
                   [pc |-> "saveProgressAgain", caller |-> calls[id].caller,
                    ev |-> calls[id].ev, result |-> calls[id].result,
                    trigger |-> calls[id].trigger,
                    record |-> saveProgress(World).progressStore[1]]]
    /\ UNCHANGED <<tierConfig, progressStore, lastCall, lastResult, atTrigger, m, vm, workouts, heap>>

NextA ==
  \/ SubmitEvent
  \/ FirstSaveResolves
  \/ UpdateTierReads
  \/ UpdateTierWrites
  \/ SecondSaveResolves
  \/ SaveAthleteReads
  \/ SaveAthleteWrites

SpecA == InitA /\ [][NextA]_vars

\* ------------------------------------------------------------------------
\* The workout store (WorkoutRepository in src/js/models/Milestone.js) and
\* the proof-method flow that fills it: selectProofMethodAndSubmit with its
\* video branch, discardVideoRecording and submitVideoProof. One submission
\* at a time; the engine call is taken as one step here (its own awaits are
\* followed in SpecS and SpecC, which leave the write-only workout store out)
\* ------------------------------------------------------------------------
MaxWorkouts == 3

ProofMethodTypes == {"escrow", "video", "record"}

\* ProofMethod.toString(ProofMethod.fromString(str)): what the record holds
storedProofMethod(str) ==
  IF str = "escrow" THEN "escrow" ELSE IF str = "video" THEN "video" ELSE "record"

\* new Workout(id, type, proofMethod, milestoneType, tier).toJSON(); the
\* generated ids are distinct, here the position in the store
newWorkoutRecord(id, type, proofMethodString, milestoneType, tier) ==
  [id |-> id, type |-> type, proofMethod |-> storedProofMethod(proofMethodString),
   milestoneType |-> milestoneType, tier |-> tier]

\* WorkoutRepository.createWorkout: putItem of the record into the store
createWorkout(store, record) == Append(store, record)

\* the engine call that a submission makes for its workout: [w, result, trigger]
engineCall(w, call, benchmarkIndex, putRejects) ==
  LET workout == [type |-> call.workout.type,
                  milestoneType |-> call.workout.milestoneType,
                  tier |-> call.workout.tier]
  IN IF call.benchmark
     THEN completeBenchmarkEvent(w, [milestoneType |-> workout.milestoneType,
                                     tier |-> workout.tier],
                                 IF benchmarkIndex = << >> THEN 0 - 1
                                 ELSE benchmarkIndex[1])
     ELSE IF putRejects THEN addWorkoutProgressSaveFails(w, workout)
     ELSE addWorkoutProgress(w, workout)

\* the state in which a submission ends: what the engine call left, its
\* result, and the view model after _processWorkoutResult (with the
\* refreshProgress() it starts) or the catch block
SubmissionEnds(id, op, out, vmAfter) ==
  /\ tierConfig' = out.w.tierConfig
  /\ progressStore' = out.w.progressStore
  /\ athlete' = out.w.athlete
  /\ lastCall' = [op |-> op, workout |-> calls[id].workout.id]
  /\ lastResult' = out.result
  /\ atTrigger' = out.trigger
  /\ vm' = IF Returned(out.result)
           THEN [vmAfter EXCEPT !.currentTier = summaryTierLevel(out.w)]
           ELSE vmAfter
  /\ calls' = [calls EXCEPT ![id] = Idle]
  /\ UNCHANGED m

\* startAddWorkout to selectWorkout, with no submission under way
SelectWorkoutW == InProgress = {} /\ SelectWorkout

\* selectProofMethodAndSubmit(proofMethod) from its entry to the await of
\* createWorkout
SelectProofMethodAndSubmitW ==
  /\ InProgress = {}
  /\ Len(workouts) < MaxWorkouts
  /\ vm.showProofMethodModal
  /\ vm.selectedMilestone # ""
  /\ IF vm.isBenchmarkMilestone THEN vm.selectedBenchmarkIndex # << >>
     ELSE vm.selectedWorkoutType # ""
  /\ \E proofMethod \in ProofMethodTypes :
       calls' = [calls EXCEPT ![FreeSlot] =
         [pc |-> "createWorkout", caller |-> "submit",
          benchmark |-> vm.isBenchmarkMilestone,
          proofMethod |-> proofMethod,
          workout |-> newWorkoutRecord(Len(workouts) + 1,
                        IF vm.isBenchmarkMilestone THEN "Benchmark"
                        ELSE vm.selectedWorkoutType,
                        proofMethod, vm.selectedMilestone, vm.currentTier)]]
  /\ vm' = [vm EXCEPT !.isLoading = TRUE]
  /\ UNCHANGED <<tierConfig, progressStore, athlete, lastCall, lastResult, atTrigger,
                 m, workouts, heap>>

\* createWorkout has stored the record. Video proof: the camera screen is
\* shown and the workout is kept for submitVideoProof. Otherwise the engine
\* is called and the submission runs to its end
CreateWorkoutStored ==
  \E id \in 1..MaxCalls :
    /\ calls[id].pc = "createWorkout"
    /\ workouts' = createWorkout(workouts, calls[id].workout)
    /\ UNCHANGED heap
    /\ IF calls[id].proofMethod = "video"
       THEN /\ calls' = [calls EXCEPT ![id].pc = "videoProofScreen"]
            /\ vm' = [vm EXCEPT !.showProofMethodModal = FALSE, !.isLoading = FALSE]
            /\ UNCHANGED <<tierConfig, progressStore, athlete, lastCall, lastResult,
                           atTrigger, m>>
       ELSE \E putRejects \in BOOLEAN :
              LET out == engineCall(World, calls[id], vm.selectedBenchmarkIndex,
                                    putRejects)
              IN SubmissionEnds(id, "selectProofMethodAndSubmit", out,
                                submitResolved(vm, out.result))

\* discardVideoRecording(): the camera screen is left and the selection and
\* videoProofWorkout are cleared
DiscardVideoRecording ==
  \E id \in 1..MaxCalls :
    /\ calls[id].pc = "videoProofScreen"
    /\ calls' = [calls EXCEPT ![id] = Idle]
    /\ vm' = [vm EXCEPT !.selectedMilestone = "", !.selectedWorkoutType = "",
                        !.selectedBenchmarkIndex = << >>]
    /\ lastCall' = [op |-> "discardVideoRecording", workout |-> calls[id].workout.id]
    /\ lastResult' = [discarded |-> TRUE]
    /\ UNCHANGED <<tierConfig, progressStore, athlete, atTrigger, m, workouts, heap>>

\* submitVideoProof(): after the upload and the analysis the engine is
\* called with videoProofWorkout, and the selection is cleared unless the
\* call threw
SubmitVideoProof ==
  \E id \in 1..MaxCalls :
    /\ calls[id].pc = "videoProofScreen"
    /\ \E putRejects \in BOOLEAN :
         LET out == engineCall(World, calls[id], vm.selectedBenchmarkIndex, putRejects)
         IN SubmissionEnds(id, "submitVideoProof", out,
              IF Returned(out.result)
              THEN [vm EXCEPT !.selectedMilestone = "", !.selectedWorkoutType = "",
                              !.selectedBenchmarkIndex = << >>]
              ELSE vm)
    /\ UNCHANGED <<workouts, heap>>

NextW ==
  \/ SelectWorkoutW
  \/ SelectProofMethodAndSubmitW
  \/ CreateWorkoutStored
  \/ DiscardVideoRecording
  \/ SubmitVideoProof

SpecW == InitE /\ [][NextW]_vars

\* ------------------------------------------------------------------------
\* The reference level: Tier objects, the plain records of toJSON and of the
\* storage, and the arrays their benchmarksCompleted fields refer to. A
\* field holds the address of an array, so that two fields can hold the
\* same array. The definition arrays (_workoutRequirements,
\* _benchmarkWorkouts) have no mutator and stay values.
\*   heap.arrays  the arrays by address (<< >> when nothing refers to it)
\*   heap.tiers   the Tier objects; the first is the one of the service
\*   heap.made    how each Tier object came to be
\*   heap.data    << >> or the record that getItem returned last
\*   heap.stored  << >> or the record that the storage holds
\* ------------------------------------------------------------------------
MaxObjects == 2

MaxArrays == 2 * (MaxObjects + 2)

\* the tier the objects are made of: a cumulative and a benchmark milestone
ObjectTier == DefaultTier(NumTiers - 1)

\* the addresses held by the milestones of a Tier object or of a record
refsOf(obj) == {obj.milestones[k].benchmarksCompleted : k \in 1..Len(obj.milestones)}

refsOfAll(objs) == UNION {refsOf(objs[o]) : o \in 1..Len(objs)}

Referenced(h) == refsOfAll(h.tiers) \cup refsOfAll(h.data) \cup refsOfAll(h.stored)

\* the addresses held by an object, in the order of its milestones
refSeq(obj) == [k \in 1..Len(obj.milestones) |-> obj.milestones[k].benchmarksCompleted]

\* garbage collection: an array nothing refers to is gone. An address is
\* not observable by the program, so the arrays in use are kept in the
\* order in which the objects refer to them
sweep(h) ==
  LET RECURSIVE firstOccurrences(_)
      firstOccurrences(seq) ==
        IF seq = << >> THEN << >>
        ELSE LET front == firstOccurrences(SubSeq(seq, 1, Len(seq) - 1)) IN
             IF includes(front, seq[Len(seq)]) THEN front
             ELSE Append(front, seq[Len(seq)])
      RECURSIVE refSeqAll(_)
      refSeqAll(objs) ==
        IF objs = << >> THEN << >> ELSE refSeq(Head(objs)) \o refSeqAll(Tail(objs))
      order == firstOccurrences(refSeqAll(h.tiers) \o refSeqAll(h.data)
                                  \o refSeqAll(h.stored))
      moved(obj) ==
        [obj EXCEPT !.milestones =
           [k \in 1..Len(obj.milestones) |->
              [obj.milestones[k] EXCEPT !.benchmarksCompleted =
                 CHOOSE i \in 1..Len(order) : order[i] = @]]]
  IN [h EXCEPT !.arrays = [a \in 1..MaxArrays |->
                             IF a <= Len(order) THEN h.arrays[order[a]] ELSE << >>],
               !.tiers = [o \in 1..Len(h.tiers) |-> moved(h.tiers[o])],
               !.data = [o \in 1..Len(h.data) |-> moved(h.data[o])],
               !.stored = [o \in 1..Len(h.stored) |-> moved(h.stored[o])]]

RECURSIVE SmallestN(_, _)
SmallestN(S, n) ==
  IF n = 0 \/ S = {} THEN << >>
  ELSE LET x == CHOOSE y \in S : \A z \in S : y <= z
       IN << x >> \o SmallestN(S \ {x}, n - 1)

\* the addresses of n new arrays, none of them in use
newArrays(used, n) == SmallestN((1..MaxArrays) \ used, n)

\* the arrays after new arrays at addrs were filled with contents
filled(arrays, addrs, contents) ==
  [a \in 1..MaxArrays |->
     IF \E k \in 1..Len(addrs) : addrs[k] = a
     THEN contents[CHOOSE k \in 1..Len(addrs) : addrs[k] = a]
     ELSE arrays[a]]

\* the milestones of obj with benchmarksCompleted at addrs
pointedAt(obj, addrs) ==
  [obj EXCEPT !.milestones =
     [k \in 1..Len(obj.milestones) |->
        [obj.milestones[k] EXCEPT !.benchmarksCompleted = addrs[k]]]]

\* the value of an object: every address replaced by the array it holds
Deref(h, obj) ==
  [obj EXCEPT !.milestones =
     [k \in 1..Len(obj.milestones) |->
        [obj.milestones[k] EXCEPT !.benchmarksCompleted = h.arrays[@]]]]

\* the arrays of an object, in the order of its milestones
contentsOf(h, obj) ==
  [k \in 1..Len(obj.milestones) |-> h.arrays[obj.milestones[k].benchmarksCompleted]]

\* new Tier(...) with new Milestone(...)s: every milestone gets its own []
hNewTier(h, t, how) ==
  LET addrs == newArrays(Referenced(h), Len(t.milestones)) IN
  [h EXCEPT !.arrays = filled(h.arrays, addrs, [k \in 1..Len(addrs) |-> << >>]),
            !.tiers = Append(h.tiers, pointedAt(t, addrs)),
            !.made = Append(h.made, how)]

\* Milestone.addProgress on milestone k of Tier object o
hAddProgress(h, o, k) ==
  [h EXCEPT !.tiers[o].milestones[k] = addProgress(@, 1)]

\* Milestone.completeBenchmark: push() on the array the field refers to
hCompleteBenchmark(h, o, k, benchmarkIndex) ==
  LET a == h.tiers[o].milestones[k].benchmarksCompleted IN
  IF ~includes(h.arrays[a], benchmarkIndex)
  THEN [h EXCEPT !.arrays[a] = Append(@, benchmarkIndex)]
  ELSE h

\* Tier.resetProgress: every milestone gets progress 0 and a new []
hResetProgress(h, o) ==
  LET others == [h EXCEPT !.tiers[o].milestones = << >>]
      addrs == newArrays(Referenced(others), Len(h.tiers[o].milestones))
  IN sweep([h EXCEPT
       !.arrays = filled(h.arrays, addrs, [k \in 1..Len(addrs) |-> << >>]),
       !.tiers[o] = pointedAt([h.tiers[o] EXCEPT !.milestones =
                      [k \in 1..Len(h.tiers[o].milestones) |->
                         [h.tiers[o].milestones[k] EXCEPT !.progress = 0]]], addrs)])

\* Tier.toJSON(): the record holds the arrays of the milestones themselves
hToJSON(obj) ==
  [level |-> obj.level, name |-> obj.name,
   milestones |-> [k \in 1..Len(obj.milestones) |-> MilestoneToJSON(obj.milestones[k])]]

\* saveProgress(): toJSON(), then JSON.parse(JSON.stringify(data)) makes new
\* arrays with the same elements, and putItem keeps that record
hSaveProgress(h) ==
  LET others == [h EXCEPT !.stored = << >>]
      record == hToJSON(h.tiers[1])
      addrs == newArrays(Referenced(others), Len(record.milestones))
  IN sweep([h EXCEPT !.arrays = filled(h.arrays, addrs, contentsOf(h, record)),
                     !.stored = << pointedAt(record, addrs) >>])

\* getItem: the storage hands out a copy of the record it holds
hGetItem(h) ==
  LET others == [h EXCEPT !.data = << >>]
      addrs == newArrays(Referenced(others), Len(h.stored[1].milestones))
  IN sweep([h EXCEPT !.arrays = filled(h.arrays, addrs, contentsOf(h, h.stored[1])),
                     !.data = << pointedAt(h.stored[1], addrs) >>])

\* Tier.fromJSON(data) with Milestone.fromJSON: progress is copied and
\* benchmarksCompleted is data.benchmarksCompleted, the array of the record
hFromJSON(data) ==
  [level |-> data.level, name |-> data.name,
   milestones |-> [k \in 1..Len(data.milestones) |->
                     [data.milestones[k] EXCEPT !.progress = NumOrZero(@)]]]

\* initialize(): the record read from the storage is restored into the
\* configuration of the service; savedProgress is a local of the call
hInitialize(h) ==
  LET others == [h EXCEPT !.tiers[1].milestones = << >>]
      addrs == newArrays(Referenced(others), Len(h.stored[1].milestones))
      savedProgress == pointedAt(h.stored[1], addrs)
  IN sweep([h EXCEPT !.arrays = filled(h.arrays, addrs, contentsOf(h, h.stored[1])),
                     !.tiers[1] = hFromJSON(savedProgress),
                     !.made[1] = [by |-> "fromJSON"]])

\* Tier.clone() that hands the arrays of the original to the new milestones
hCloneShares(h, o) ==
  [h EXCEPT !.tiers = Append(h.tiers, pointedAt(TierClone(h.tiers[o]), refSeq(h.tiers[o]))),
            !.made = Append(h.made, [by |-> "clone", of |-> o])]

\* Tier.clone() with Milestone.clone(): new Milestone objects from the
\* definitions, with progress 0 and a new [] each
hClone(h, o) == hNewTier(h, TierClone(h.tiers[o]), [by |-> "clone", of |-> o])

InitH ==
  /\ tierConfig = NewTierConfiguration
  /\ progressStore = << >>
  /\ athlete = NoAthlete
  /\ lastCall = [op |-> "none"]
  /\ lastResult = [none |-> TRUE]
  /\ atTrigger = NoTrigger
  /\ m = IdleMilestone
  /\ vm = NewMainScreenViewModel
  /\ calls = NoCalls
  /\ workouts = << >>
  /\ heap = hNewTier([arrays |-> [a \in 1..MaxArrays |-> << >>], tiers |-> << >>,
                      made |-> << >>, data |-> << >>, stored |-> << >>],
                     ObjectTier, [by |-> "new"])

\* an operation of the reference level: it changes heap only
Does(call, h) ==
  /\ heap' = sweep(h)
  /\ lastCall' = call
  /\ UNCHANGED <<tierConfig, progressStore, athlete, lastResult, atTrigger, m, vm,
                 calls, workouts>>

HAddProgress ==
  \E o \in 1..Len(heap.tiers) : \E k \in 1..Len(heap.tiers[o].milestones) :
    /\ ~usesBenchmarks(heap.tiers[o].milestones[k])
    /\ Does([op |-> "update"], hAddProgress(heap, o, k))

HCompleteBenchmark ==
  \E o \in 1..Len(heap.tiers) : \E k \in 1..Len(heap.tiers[o].milestones) :
    /\ usesBenchmarks(heap.tiers[o].milestones[k])
    /\ \E benchmarkIndex \in 0..(Len(heap.tiers[o].milestones[k].benchmarkWorkouts) - 1) :
         Does([op |-> "update"],
              hCompleteBenchmark(heap, o, k, benchmarkIndex))

HResetProgress ==
  \E o \in 1..Len(heap.tiers) :
    Does([op |-> "update"], hResetProgress(heap, o))

HSaveProgress ==
  /\ Len(heap.tiers) > 0
  /\ Does([op |-> "update"], hSaveProgress(heap))

HGetItem ==
  /\ heap.stored # << >>
  /\ Does([op |-> "update"], hGetItem(heap))

HFromJSON ==
  /\ heap.data # << >>
  /\ Len(heap.tiers) < MaxObjects
  /\ Does([op |-> "update"],
          [heap EXCEPT !.tiers = Append(@, hFromJSON(heap.data[1])),
                       !.made = Append(@, [by |-> "fromJSON"])])

HInitialize ==
  /\ heap.stored # << >>
  /\ Does([op |-> "update"], hInitialize(heap))

HClone ==
  /\ Len(heap.tiers) < MaxObjects
  /\ \E o \in 1..Len(heap.tiers) :
       Does([op |-> "clone", of |-> o, before |-> Deref(heap, heap.tiers[o])], hClone(heap, o))

NextH ==
  \/ HAddProgress
  \/ HCompleteBenchmark
  \/ HResetProgress
  \/ HSaveProgress
  \/ HGetItem
  \/ HFromJSON
  \/ HInitialize
  \/ HClone

SpecH == InitH /\ [][NextH]_vars

\* ------------------------------------------------------------------------
\* Properties
\* ------------------------------------------------------------------------
\* the milestones of a configuration, as <<tier position, milestone position>>
Slots(cfg) ==
  UNION { {<<ti, mi>> : mi \in 1..Len(cfg[ti].milestones)} : ti \in 1..Len(cfg) }

MilestoneAt(cfg, slot) == cfg[slot[1]].milestones[slot[2]]

\* addProgress(1) called n times in a row
RECURSIVE addProgressTimes(_, _)
addProgressTimes(ms, n) == IF n = 0 THEN ms ELSE addProgress(addProgressTimes(ms, n - 1), 1)

\* the event was applied: the call returned a success result
Applied(out) == Returned(out.result) /\ out.result.success

\* the milestone an event is declared for, 0 when it does not resolve
TargetSlot(cfg, workout) ==
  LET ti == getTierByLevel(cfg, workout.tier) IN
  IF ti = 0 THEN <<0, 0>> ELSE <<ti, findMilestoneByType(cfg[ti], workout.milestoneType)>>

Resolves(cfg, workout) == TargetSlot(cfg, workout)[1] # 0 /\ TargetSlot(cfg, workout)[2] # 0

\* an event can be submitted: the main screen exists only with a profile
Submittable == athlete.exists

\* C1 (monotonic clamp): every cumulative milestone has
\* 0 <= progress <= requiredWorkouts; n further addProgress(1) calls leave
\* progress = min(progress + n, requiredWorkouts), with isCompleted true as
\* soon as that reaches requiredWorkouts; and an accepted workout against a
\* full milestone is applied (not rejected) and leaves progress unchanged.
C1_MonotonicClamp ==
  /\ \A slot \in Slots(tierConfig) :
       LET ms == MilestoneAt(tierConfig, slot) IN
       ~usesBenchmarks(ms) =>
         /\ 0 <= ms.progress /\ ms.progress <= ms.requiredWorkouts
         /\ \A n \in 0..(MaxRequired + 2) :
              LET after == addProgressTimes(ms, n) IN
              /\ after.progress = Min(ms.progress + n, ms.requiredWorkouts)
              /\ after.progress <= after.requiredWorkouts
              /\ (ms.progress + n >= ms.requiredWorkouts =>
                    after.progress = ms.requiredWorkouts /\ isCompleted(after))
  /\ \A workout \in OrdinaryEvents :
       LET out == addWorkoutProgress(World, workout)
           slot == TargetSlot(tierConfig, workout)
       IN (Submittable
           /\ Resolves(tierConfig, workout)
           /\ ~usesBenchmarks(MilestoneAt(tierConfig, slot))
           /\ acceptsWorkoutType(MilestoneAt(tierConfig, slot), workout.type)) =>
            LET before == MilestoneAt(tierConfig, slot)
                after == MilestoneAt(out.w.tierConfig, slot)
            IN /\ Applied(out)
               /\ after.progress = Min(before.progress + 1, before.requiredWorkouts)
               /\ (before.progress = before.requiredWorkouts =>
                     after.progress = before.progress /\ isCompleted(after))

\* C1 witness: a workout was applied to the full bronze milestone of tier 0
C1_Witness ==
  /\ lastCall.op = "addWorkoutProgress"
  /\ Returned(lastResult) /\ lastResult.success
  /\ lastResult.milestoneProgress.name = "First Steps"
  /\ lastResult.milestoneProgress.progress = MaxRequired
  /\ lastResult.milestoneProgress.required = MaxRequired
  /\ ~lastResult.milestoneProgress.justCompleted
  /\ tierConfig[1].milestones[1].progress = MaxRequired

\* the record that holds every field of every tier and milestone of cfg
FullRecord(cfg) ==
  [id |-> progressKey,
   tiers |-> [ti \in 1..Len(cfg) |->
     [level |-> cfg[ti].level, name |-> cfg[ti].name,
      milestones |-> [mi \in 1..Len(cfg[ti].milestones) |->
        LET ms == cfg[ti].milestones[mi] IN
        [type |-> ms.type, name |-> ms.name,
         requiredWorkouts |-> ms.requiredWorkouts,
         workoutRequirements |-> ms.workoutRequirements,
         benchmarkWorkouts |-> ms.benchmarkWorkouts,
         progress |-> ms.progress,
         benchmarksCompleted |-> ms.benchmarksCompleted]]]]]

EngineOps == {"addWorkoutProgress", "completeBenchmark", "resetAllProgress"}

\* C2 (full re-save): when an engine operation has returned successfully,
\* the store holds exactly one record, under the fixed key, and it is the
\* full serialization of the in-memory configuration.
C2_FullResave ==
  (lastCall.op \in EngineOps /\ Returned(lastResult) /\ lastResult.success) =>
     progressStore = << FullRecord(tierConfig) >>

\* C2 witness: an event levelled the athlete up (reset of the next tier
\* after the first save) and the store holds a record
C2_Witness ==
  /\ lastCall.op = "addWorkoutProgress"
  /\ Returned(lastResult) /\ lastResult.success
  /\ lastResult.milestoneProgress.justCompleted
  /\ "tierLevelUp" \in DOMAIN lastResult
  /\ lastResult.tierLevelUp.leveledUp
  /\ Len(progressStore) = 1

\* the values the round-trip law compares
Observed(cfg) ==
  [ti \in 1..Len(cfg) |->
    [isCompleted |-> tierIsCompleted(cfg[ti]),
     progressPercent |-> tierProgressPercent(cfg[ti]),
     milestones |-> [mi \in 1..Len(cfg[ti].milestones) |->
       [progress |-> cfg[ti].milestones[mi].progress,
        benchmarksCompleted |-> cfg[ti].milestones[mi].benchmarksCompleted]]]]

\* C3 (round-trip law): fromJSON(toJSON(config)) has every tier's
\* isCompleted and progressPercent and every milestone's progress and
\* benchmarksCompleted equal to the original, and so has the configuration
\* that initialize() loads after saveProgress().
C3_RoundTrip ==
  /\ Observed(fromJSON(toJSON(tierConfig))) = Observed(tierConfig)
  /\ Observed(initialize(saveProgress(World)).tierConfig) = Observed(tierConfig)

\* C3 witness: a configuration with counted workouts and completed
\* benchmarks that was loaded back from the store
C3_Witness ==
  /\ lastCall.op = "pageLoad"
  /\ tierConfig[1].milestones[1].progress > 0
  /\ Len(tierConfig[1].milestones[2].benchmarksCompleted) > 0
  /\ Len(progressStore) = 1

\* C4 (level-up resets forward only): after an advancement from tier L,
\* every milestone of tier L has the progress and benchmarksCompleted it had
\* when the advancement started, every milestone of tier L + 1 has progress
\* 0 and no completed benchmark, every other tier is as it was, and the
\* athlete's tier pointer is L + 1.
C4_LevelUpResetsForwardOnly ==
  atTrigger # NoTrigger =>
    LET L == atTrigger[1].level
        pre == atTrigger[1].tierConfig
    IN /\ Len(tierConfig) = Len(pre)
       /\ tierIsCompleted(pre[L + 1])
       /\ L + 2 <= Len(tierConfig)
       /\ \A mi \in 1..Len(pre[L + 1].milestones) :
            /\ tierConfig[L + 1].milestones[mi].progress = pre[L + 1].milestones[mi].progress
            /\ tierConfig[L + 1].milestones[mi].benchmarksCompleted =
                 pre[L + 1].milestones[mi].benchmarksCompleted
       /\ \A mi \in 1..Len(tierConfig[L + 2].milestones) :
            /\ tierConfig[L + 2].milestones[mi].progress = 0
            /\ tierConfig[L + 2].milestones[mi].benchmarksCompleted = << >>
       /\ \A ti \in 1..Len(tierConfig) :
            (ti # L + 2) => tierConfig[ti] = pre[ti]
       /\ athlete.exists /\ athlete.currentTier = L + 1

\* C4 witness: an advancement into the last tier while that tier held
\* progress and a completed benchmark
C4_Witness ==
  /\ lastCall.op = "addWorkoutProgress"
  /\ atTrigger # NoTrigger
  /\ atTrigger[1].level = NumTiers - 2
  /\ atTrigger[1].tierConfig[NumTiers].milestones[1].progress > 0
  /\ Len(atTrigger[1].tierConfig[NumTiers].milestones[2].benchmarksCompleted) > 0
  /\ isCompleted(tierConfig[NumTiers - 1].milestones[1])
  /\ tierConfig[NumTiers].milestones[1].progress = 0
  /\ tierConfig[NumTiers].milestones[2].benchmarksCompleted = << >>
  /\ athlete.currentTier = NumTiers - 1

AllZero(t) ==
  \A mi \in 1..Len(t.milestones) :
    t.milestones[mi].progress = 0 /\ t.milestones[mi].benchmarksCompleted = << >>

\* C5 (end-to-end scenario): an accepted ordinary workout against an
\* incomplete milestone that stays below its requirement returns success,
\* justCompleted = false and no tierLevelUp report; the workout that
\* completes the last incomplete milestone of tier 0 returns
\* justCompleted = true and tierLevelUp {leveledUp, newTier 1, the name of
\* tier 1}, and afterwards every milestone of tier 1 is at zero.
C5_EndToEnd ==
  \A workout \in OrdinaryEvents :
    LET out == addWorkoutProgress(World, workout)
        slot == TargetSlot(tierConfig, workout)
    IN (Submittable /\ Resolves(tierConfig, workout)
        /\ acceptsWorkoutType(MilestoneAt(tierConfig, slot), workout.type)) =>
         LET before == MilestoneAt(tierConfig, slot)
             after == MilestoneAt(out.w.tierConfig, slot)
         IN /\ (~isCompleted(before) /\ before.progress + 1 < before.requiredWorkouts) =>
                 /\ Applied(out)
                 /\ ~out.result.milestoneProgress.justCompleted
                 /\ "tierLevelUp" \notin DOMAIN out.result
            /\ (/\ workout.tier = 0
                /\ ~isCompleted(before)
                /\ \A mi \in 1..Len(tierConfig[1].milestones) :
                     mi # slot[2] => isCompleted(tierConfig[1].milestones[mi])
                /\ before.progress + 1 >= before.requiredWorkouts
                /\ ~usesBenchmarks(before)) =>
                 /\ Applied(out)
                 /\ out.result.milestoneProgress.justCompleted
                 /\ "tierLevelUp" \in DOMAIN out.result
                 /\ out.result.tierLevelUp =
                      [leveledUp |-> TRUE, newTier |-> 1, tierName |-> TierNames[2]]
                 /\ AllZero(out.w.tierConfig[2])

\* C5 witness: the final workout of tier 0 was submitted and reported the
\* advancement to tier 1
C5_Witness ==
  /\ lastCall.op = "addWorkoutProgress"
  /\ Returned(lastResult) /\ lastResult.success
  /\ lastResult.milestoneProgress.justCompleted
  /\ lastResult.milestoneProgress.name = "First Steps"
  /\ "tierLevelUp" \in DOMAIN lastResult
  /\ lastResult.tierLevelUp.leveledUp /\ lastResult.tierLevelUp.newTier = 1
  /\ lastResult.tierLevelUp.tierName = "Novice"
  /\ AllZero(tierConfig[2])
  /\ tierIsCompleted(tierConfig[1])

\* the three rejections of an ordinary-workout event, read off the catalog
BadTier(cfg, workout) == ~(workout.tier \in 0..(Len(cfg) - 1))

BadMilestone(cfg, workout) ==
  /\ ~BadTier(cfg, workout)
  /\ \A mi \in 1..Len(cfg[workout.tier + 1].milestones) :
       cfg[workout.tier + 1].milestones[mi].type # workout.milestoneType

BadWorkoutType(cfg, workout) ==
  /\ ~BadTier(cfg, workout) /\ ~BadMilestone(cfg, workout)
  /\ LET wr == MilestoneAt(cfg, TargetSlot(cfg, workout)).workoutRequirements IN
     Len(wr) > 0 /\ \A k \in 1..Len(wr) : wr[k].workoutType # workout.type

\* C6 (rejected events): an ordinary-workout event whose tier is not in the
\* catalog, whose milestone type is not in the tier or whose workout type
\* the milestone does not accept returns a failure result, and every
\* failure result leaves the configuration, the stored record and the
\* athlete's tier pointer as they were.
C6_RejectedNoChange ==
  \A workout \in OrdinaryEvents :
    LET out == addWorkoutProgress(World, workout) IN
    /\ (BadTier(tierConfig, workout) \/ BadMilestone(tierConfig, workout)
        \/ BadWorkoutType(tierConfig, workout)) =>
          Returned(out.result) /\ ~out.result.success
    /\ (Returned(out.result) /\ ~out.result.success) =>
          /\ out.w.tierConfig = tierConfig
          /\ out.w.progressStore = progressStore
          /\ out.w.athlete = athlete
          /\ out.trigger = NoTrigger

\* C6 witness: a workout type was rejected while progress was stored
C6_Witness ==
  /\ lastCall.op = "addWorkoutProgress"
  /\ Returned(lastResult) /\ ~lastResult.success
  /\ lastResult.error = <<"Running", "does not count towards", "First Steps">>
  /\ Len(progressStore) = 1
  /\ tierConfig[1].milestones[1].progress > 0

\* C7 (invalid benchmark index): a benchmark-completion event whose index
\* is outside [0, benchmarkWorkouts.length) of its milestone is rejected
\* with the invalid-index error and leaves benchmarksCompleted (the whole
\* configuration), the stored record and the athlete's tier pointer as
\* they were.
C7_InvalidBenchmarkIndex ==
  \A workout \in BenchmarkEvents, benchmarkIndex \in EventBenchmarkIndices :
    LET out == completeBenchmarkEvent(World, workout, benchmarkIndex) IN
    (/\ Resolves(tierConfig, workout)
     /\ ~(benchmarkIndex \in
            0..(Len(MilestoneAt(tierConfig, TargetSlot(tierConfig, workout)).benchmarkWorkouts) - 1))) =>
       /\ Returned(out.result) /\ ~out.result.success
       /\ out.result.error = <<"Invalid benchmark index">>
       /\ out.w.tierConfig = tierConfig
       /\ out.w.progressStore = progressStore
       /\ out.w.athlete = athlete

\* C7 witness: an index was rejected for a configuration that has a
\* completed benchmark
C7_Witness ==
  /\ lastCall.op = "completeBenchmark"
  /\ Returned(lastResult) /\ ~lastResult.success
  /\ lastResult.error = <<"Invalid benchmark index">>
  /\ Len(tierConfig[1].milestones[2].benchmarksCompleted) > 0

\* the elements of an array
Elems(arr) == {arr[k] : k \in 1..Len(arr)}

\* C8 (benchmarksCompleted is a set of valid indices): in every reachable
\* state each milestone's benchmarksCompleted has no duplicate and only
\* indices in [0, benchmarkWorkouts.length), and a benchmark milestone is
\* complete exactly when every one of its benchmarks is in it.
C8_BenchmarksCompletedIsSet ==
  \A slot \in Slots(tierConfig) :
    LET ms == MilestoneAt(tierConfig, slot)
        bc == ms.benchmarksCompleted
    IN /\ \A j, k \in 1..Len(bc) : j # k => bc[j] # bc[k]
       /\ \A k \in 1..Len(bc) : bc[k] >= 0 /\ bc[k] < Len(ms.benchmarkWorkouts)
       /\ usesBenchmarks(ms) =>
            (isCompleted(ms) <=> Elems(bc) = 0..(Len(ms.benchmarkWorkouts) - 1))

\* C8 witness: a benchmark of an already complete benchmark milestone was
\* completed again
C8_Witness ==
  /\ lastCall.op = "completeBenchmark"
  /\ Returned(lastResult) /\ lastResult.success
  /\ ~lastResult.milestoneProgress.justCompleted
  /\ Len(tierConfig[1].milestones[2].benchmarksCompleted) = NumBenchmarks
  /\ isCompleted(tierConfig[1].milestones[2])

\* C9 (benchmark idempotence): for any milestone and any index i,
\* completeBenchmark(i) applied twice leaves benchmarksCompleted,
\* isCompleted and progressPercent as after applying it once; the milestone
\* left by a completeBenchmark(i) call is not changed by the same call again.
C9_CompleteBenchmarkIdempotent ==
  /\ \A benchmarkIndex \in MilestoneIndices :
       LET once == completeBenchmark(m, benchmarkIndex)
           twice == completeBenchmark(once, benchmarkIndex)
       IN /\ twice.benchmarksCompleted = once.benchmarksCompleted
          /\ isCompleted(twice) = isCompleted(once)
          /\ progressPercent(twice) = progressPercent(once)
          /\ Cardinality({k \in 1..Len(twice.benchmarksCompleted) :
                            twice.benchmarksCompleted[k] = benchmarkIndex}) =
             Cardinality({k \in 1..Len(once.benchmarksCompleted) :
                            once.benchmarksCompleted[k] = benchmarkIndex})
  /\ lastCall.op = "Milestone.completeBenchmark" =>
       /\ completeBenchmark(m, lastCall.benchmarkIndex) = m
       /\ Len(m.benchmarksCompleted) <= Len(lastCall.before.benchmarksCompleted) + 1
       /\ (includes(lastCall.before.benchmarksCompleted, lastCall.benchmarkIndex) =>
             m = lastCall.before)

\* C9 witness: completeBenchmark(0) has just added index 0 behind another
\* completed benchmark
C9_Witness ==
  /\ lastCall.op = "Milestone.completeBenchmark"
  /\ lastCall.benchmarkIndex = 0
  /\ lastCall.before.benchmarksCompleted = <<1>>
  /\ m.benchmarksCompleted = <<1, 0>>

\* C10 (mode exclusivity): a milestone with a non-empty benchmarkWorkouts
\* list reports usesBenchmarks, is complete iff it has at least as many
\* completed benchmarks as benchmarks, has progressPercent
\* min(100, 100 * completed / benchmarks), and both are the same for every
\* value of progress and requiredWorkouts.
C10_ModeExclusivity ==
  Len(m.benchmarkWorkouts) > 0 =>
    /\ usesBenchmarks(m)
    /\ isCompleted(m) <=> (Len(m.benchmarksCompleted) >= Len(m.benchmarkWorkouts))
    /\ progressPercent(m) =
         Min100(Frac(100 * Len(m.benchmarksCompleted), Len(m.benchmarkWorkouts)))
    /\ \A p \in 0..MaxProgress, req \in 0..MaxRequired :
         LET other == [m EXCEPT !.progress = p, !.requiredWorkouts = req] IN
         /\ usesBenchmarks(other)
         /\ isCompleted(other) = isCompleted(m)
         /\ progressPercent(other) = progressPercent(m)

\* C10 witness: addProgress has filled the counter of a benchmark milestone
\* whose benchmarks are not all completed
C10_Witness ==
  /\ lastCall.op = "Milestone.addProgress"
  /\ Len(m.benchmarkWorkouts) = MaxBenchmarks
  /\ m.requiredWorkouts > 0
  /\ m.progress = m.requiredWorkouts
  /\ lastCall.before.progress < m.progress
  /\ Len(m.benchmarksCompleted) < Len(m.benchmarkWorkouts)
  /\ ~isCompleted(m)

\* C11 (mode branch before dispatch): no ordinary-workout event moves the
\* progress counter of a benchmark-mode milestone, and the counter of every
\* benchmark-mode milestone is 0 in every reachable state.
C11_BenchmarkCounterStaysZero ==
  /\ \A slot \in Slots(tierConfig) :
       usesBenchmarks(MilestoneAt(tierConfig, slot)) =>
         MilestoneAt(tierConfig, slot).progress = 0
  /\ \A workout \in OrdinaryEvents :
       LET out == addWorkoutProgress(World, workout) IN
       Submittable =>
         \A slot \in Slots(tierConfig) :
           usesBenchmarks(MilestoneAt(tierConfig, slot)) =>
             MilestoneAt(out.w.tierConfig, slot).progress =
               MilestoneAt(tierConfig, slot).progress

\* the milestones of tier t that do not satisfy their completion predicate
OpenMilestones(t) == {mi \in 1..Len(t.milestones) : ~isCompleted(t.milestones[mi])}

\* C12 (tier completion requires all milestones): a tier reports
\* isCompleted exactly when none of its milestones is open; a tier whose
\* milestones are all complete but one, which has
\* progress = requiredWorkouts - 1, reports isCompleted = false whatever
\* its weighted percentage is.
C12_TierCompletionRequiresAll ==
  \A ti \in 1..Len(tierConfig) :
    LET t == tierConfig[ti] IN
    /\ tierIsCompleted(t) <=> (OpenMilestones(t) = {})
    /\ tierIsCompleted(t) <=> (completedMilestones(t) = Len(t.milestones))
    /\ \A mi \in 1..Len(t.milestones) :
         (/\ ~usesBenchmarks(t.milestones[mi])
          /\ t.milestones[mi].progress = t.milestones[mi].requiredWorkouts - 1
          /\ OpenMilestones(t) = {mi}) => ~tierIsCompleted(t)

\* C12 witness: tier 0 with its benchmark milestone complete and its
\* cumulative milestone one workout short, after a workout was counted
C12_Witness ==
  /\ lastCall.op = "addWorkoutProgress"
  /\ Returned(lastResult) /\ lastResult.success
  /\ isCompleted(tierConfig[1].milestones[2])
  /\ tierConfig[1].milestones[1].progress = MaxRequired - 1
  /\ tierConfig[1].milestones[1].progress > 0
  /\ tierProgressPercent(tierConfig[1]).n > 0
  /\ ~tierIsCompleted(tierConfig[1])

RECURSIVE SumSeq(_)
SumSeq(q) == IF Len(q) = 0 THEN 0 ELSE q[1] + SumSeq(Tail(q))

RECURSIVE ProdSeq(_)
ProdSeq(q) == IF Len(q) = 0 THEN 1 ELSE q[1] * ProdSeq(Tail(q))

\* ceil(requiredWorkouts * 0.15) as the least integer c with c >= 0.15 * req
Weight(ms) ==
  CHOOSE c \in 0..(ms.requiredWorkouts + 1) :
    100 * c >= 15 * ms.requiredWorkouts /\ 100 * (c - 1) < 15 * ms.requiredWorkouts

\* the weighted sums of the progress formula; the completed sum is scaled
\* by Scale(t), the product of the milestones' benchmark counts
Scale(t) ==
  ProdSeq([mi \in 1..Len(t.milestones) |->
             IF Len(t.milestones[mi].benchmarkWorkouts) > 0
             THEN Len(t.milestones[mi].benchmarkWorkouts) ELSE 1])

WeightedNeeded(t) ==
  SumSeq([mi \in 1..Len(t.milestones) |->
            IF Len(t.milestones[mi].benchmarkWorkouts) > 0
            THEN Weight(t.milestones[mi]) ELSE t.milestones[mi].requiredWorkouts])

WeightedCompletedScaled(t) ==
  SumSeq([mi \in 1..Len(t.milestones) |->
            LET ms == t.milestones[mi] IN
            IF Len(ms.benchmarkWorkouts) > 0
            THEN Weight(ms) * Len(ms.benchmarksCompleted)
                   * (Scale(t) \div Len(ms.benchmarkWorkouts))
            ELSE ms.progress * Scale(t)])

ExampleTier ==
  NewTier(0, "Beginner",
    << CumulativeMilestone(<<10, 5>>), BenchmarkMilestone(<<20, 4, 2>>) >>)

\* C13 (weighted tier percentage): progressPercent of a tier is
\* min(100, 100 * completed / needed), 0 when needed is 0, with a cumulative
\* milestone counting requiredWorkouts / progress and a benchmark milestone
\* counting ceil(0.15 * requiredWorkouts) / that weight times the fraction
\* of its benchmarks completed; it lies within [0, 100]; the tier with a
\* cumulative milestone (10, progress 5) and a benchmark milestone (20, 2 of
\* 4) has needed 13, completed 6.5 and 50 percent.
C13_WeightedPercent ==
  /\ \A ti \in 1..Len(tierConfig) :
       LET t == tierConfig[ti]
           pct == tierProgressPercent(t)
           needed == WeightedNeeded(t)
           done == WeightedCompletedScaled(t)
       IN /\ getTotalWorkoutsNeeded(t) = needed
          /\ getTotalWorkoutsCompleted(t).d > 0
          /\ getTotalWorkoutsCompleted(t).n * Scale(t) = getTotalWorkoutsCompleted(t).d * done
          /\ pct.d > 0 /\ 0 <= pct.n /\ pct.n <= 100 * pct.d
          /\ (needed = 0 => pct.n = 0)
          /\ (needed > 0 /\ done >= needed * Scale(t) => pct.n = 100 * pct.d)
          /\ (needed > 0 /\ done < needed * Scale(t) =>
                pct.n * needed * Scale(t) = pct.d * 100 * done)
  /\ getTotalWorkoutsNeeded(ExampleTier) = 13
  /\ getTotalWorkoutsCompleted(ExampleTier) = [n |-> 13, d |-> 2]
  /\ tierProgressPercent(ExampleTier) = [n |-> 50, d |-> 1]

\* C13 witness: the tier of the example, reached by completing its second
\* benchmark
C13_Witness ==
  /\ lastCall.op = "Tier.completeBenchmark"
  /\ tierConfig = << ExampleTier >>
  /\ tierProgressPercent(tierConfig[1]) = [n |-> 50, d |-> 1]

\* C14 (justCompleted): for every ordinary-workout event that returns
\* success, justCompleted is true exactly when the targeted milestone was
\* incomplete before the update and is complete after it, and the reported
\* name, progress and required are the milestone's values after the update;
\* an accepted workout against an already complete cumulative milestone
\* succeeds with justCompleted = false.
C14_JustCompleted ==
  \A workout \in OrdinaryEvents :
    LET out == addWorkoutProgress(World, workout)
        slot == TargetSlot(tierConfig, workout)
    IN /\ Applied(out) =>
            LET before == MilestoneAt(tierConfig, slot)
                after == MilestoneAt(out.w.tierConfig, slot)
                report == out.result.milestoneProgress
            IN /\ report.justCompleted <=> (~isCompleted(before) /\ isCompleted(after))
               /\ report.progress = after.progress
               /\ report.required = after.requiredWorkouts
               /\ report.name = after.name
       /\ (/\ Submittable
           /\ Resolves(tierConfig, workout)
           /\ ~usesBenchmarks(MilestoneAt(tierConfig, slot))
           /\ acceptsWorkoutType(MilestoneAt(tierConfig, slot), workout.type)
           /\ isCompleted(MilestoneAt(tierConfig, slot))) =>
            Applied(out) /\ ~out.result.milestoneProgress.justCompleted

\* C14 witness: a workout completed the cumulative milestone of tier 0
\* while the tier stayed incomplete
C14_Witness ==
  /\ lastCall.op = "addWorkoutProgress"
  /\ Returned(lastResult) /\ lastResult.success
  /\ lastResult.milestoneProgress.justCompleted
  /\ lastResult.milestoneProgress.progress = MaxRequired
  /\ "tierLevelUp" \notin DOMAIN lastResult
  /\ isCompleted(tierConfig[1].milestones[1])
  /\ ~tierIsCompleted(tierConfig[1])

\* the configuration with addProgress(1) applied to the target of workout
WithWorkout(cfg, workout) ==
  LET slot == TargetSlot(cfg, workout) IN
  [cfg EXCEPT ![slot[1]].milestones[slot[2]] = addProgress(@, 1)]

\* C15 (last tier): an accepted workout that leaves the last tier of the
\* configuration complete returns success with
\* tierLevelUp = {leveledUp: false, maxTierReached: true}; the advancement
\* check changes nothing (the configuration is the one with the workout
\* counted, no tier is reset, the athlete record is as it was); and the
\* athlete's tier pointer is never above tierCount - 1.
C15_MaxTierReached ==
  /\ athlete.currentTier >= 0 /\ athlete.currentTier <= tierCount(tierConfig) - 1
  /\ \A workout \in OrdinaryEvents :
       LET out == addWorkoutProgress(World, workout)
           slot == TargetSlot(tierConfig, workout)
       IN (/\ workout.tier = tierCount(tierConfig) - 1
           /\ Resolves(tierConfig, workout)
           /\ acceptsWorkoutType(MilestoneAt(tierConfig, slot), workout.type)
           /\ tierIsCompleted(WithWorkout(tierConfig, workout)[slot[1]])) =>
            /\ Applied(out)
            /\ "tierLevelUp" \in DOMAIN out.result
            /\ out.result.tierLevelUp = [leveledUp |-> FALSE, maxTierReached |-> TRUE]
            /\ out.w.tierConfig = WithWorkout(tierConfig, workout)
            /\ out.w.athlete = athlete
            /\ out.w.progressStore = << FullRecord(out.w.tierConfig) >>
            /\ out.trigger = NoTrigger

\* C15 witness: the athlete is on the last tier and the workout that
\* completed it reported maxTierReached
C15_Witness ==
  /\ lastCall.op = "addWorkoutProgress"
  /\ Returned(lastResult) /\ lastResult.success
  /\ lastResult.milestoneProgress.justCompleted
  /\ "tierLevelUp" \in DOMAIN lastResult
  /\ "maxTierReached" \in DOMAIN lastResult.tierLevelUp
  /\ lastResult.tierLevelUp.maxTierReached /\ ~lastResult.tierLevelUp.leveledUp
  /\ athlete.exists /\ athlete.currentTier = NumTiers - 1
  /\ tierIsCompleted(tierConfig[NumTiers])
  /\ atTrigger = NoTrigger

\* C16 (passed tiers are not revisited): no ordinary-workout event and no
\* benchmark event, whatever tier it is declared for, leaves the athlete's
\* tier pointer lower than it was.
C16_TierPointerNeverDecreases ==
  /\ \A workout \in OrdinaryEvents :
       addWorkoutProgress(World, workout).w.athlete.currentTier >= athlete.currentTier
  /\ \A workout \in BenchmarkEvents, benchmarkIndex \in EventBenchmarkIndices :
       completeBenchmarkEvent(World, workout, benchmarkIndex).w.athlete.currentTier
         >= athlete.currentTier

\* arr is an initial part of longer
IsPrefix(arr, longer) ==
  Len(arr) <= Len(longer) /\ \A k \in 1..Len(arr) : longer[k] = arr[k]

\* no milestone of a tier at or below the athlete's tier lost progress
\* from configuration cfg to configuration after
KeepsProgress(cfg, after) ==
  \A slot \in Slots(cfg) :
    cfg[slot[1]].level <= athlete.currentTier =>
      /\ MilestoneAt(after, slot).progress >= MilestoneAt(cfg, slot).progress
      /\ IsPrefix(MilestoneAt(cfg, slot).benchmarksCompleted,
                  MilestoneAt(after, slot).benchmarksCompleted)

\* C17 (monotonic progress): no ordinary-workout event and no benchmark
\* event decreases the progress or shrinks the benchmarksCompleted of a
\* milestone in a tier the athlete is on or has already completed.
C17_ProgressMonotonic ==
  /\ \A workout \in OrdinaryEvents :
       KeepsProgress(tierConfig, addWorkoutProgress(World, workout).w.tierConfig)
  /\ \A workout \in BenchmarkEvents, benchmarkIndex \in EventBenchmarkIndices :
       KeepsProgress(tierConfig,
                     completeBenchmarkEvent(World, workout, benchmarkIndex).w.tierConfig)

\* every tier below the athlete's tier pointer is completed
LowerTiersCompleted(cfg, pointer) ==
  \A ti \in 1..Len(cfg) : cfg[ti].level < pointer => tierIsCompleted(cfg[ti])

\* C18 (higher tiers are bound to lower tiers): in every state reached
\* through engine events every tier below the athlete's tier pointer is
\* completed, and an ordinary-workout event, whatever tier it is declared
\* for, leaves it so.
C18_LowerTiersCompleted ==
  /\ LowerTiersCompleted(tierConfig, athlete.currentTier)
  /\ \A workout \in OrdinaryEvents :
       LET out == addWorkoutProgress(World, workout) IN
       LowerTiersCompleted(out.w.tierConfig, out.w.athlete.currentTier)

\* C19 (fresh catalog when nothing is saved): when the store holds no
\* record under the progress key, the configuration after initialize() is a
\* fresh catalog instance, whatever the configuration in memory was.
C19_InitializeFreshWithoutRecord ==
  Len(progressStore) = 0 => initialize(World).tierConfig = NewTierConfiguration

\* the fields of a configuration that the catalog defines
CatalogFields(cfg) ==
  [ti \in 1..Len(cfg) |->
    [level |-> cfg[ti].level, name |-> cfg[ti].name,
     milestones |-> [mi \in 1..Len(cfg[ti].milestones) |->
       [type |-> cfg[ti].milestones[mi].type,
        requiredWorkouts |-> cfg[ti].milestones[mi].requiredWorkouts,
        workoutRequirements |-> cfg[ti].milestones[mi].workoutRequirements,
        benchmarkWorkouts |-> cfg[ti].milestones[mi].benchmarkWorkouts]]]]

\* C20 (load restores only the mutable fields): after a start that loaded
\* the stored record, every tier's level and name and every milestone's
\* type, requiredWorkouts, workoutRequirements and benchmarkWorkouts equal
\* those of the static catalog, and progress and benchmarksCompleted are
\* those of the record, for every record content.
C20_LoadKeepsCatalogFields ==
  (lastCall.op = "pageLoad" /\ athlete.exists
   /\ Len(progressStore) > 0 /\ "tiers" \in DOMAIN progressStore[1]) =>
    /\ CatalogFields(tierConfig) = CatalogFields(NewTierConfiguration)
    /\ \A ti \in 1..Len(progressStore[1].tiers) :
         \A mi \in 1..Len(progressStore[1].tiers[ti].milestones) :
           LET data == progressStore[1].tiers[ti].milestones[mi] IN
           /\ tierConfig[ti].milestones[mi].progress = FieldOr(data, "progress", 0)
           /\ tierConfig[ti].milestones[mi].benchmarksCompleted =
                FieldOr(data, "benchmarksCompleted", << >>)


C22_SaveFailurePropagates ==
  /\ \A workout \in OrdinaryEvents :
       LET out == addWorkoutProgressSaveFails(World, workout)
           slot == TargetSlot(tierConfig, workout)
       IN (/\ Submittable
           /\ Resolves(tierConfig, workout)
           /\ acceptsWorkoutType(MilestoneAt(tierConfig, slot), workout.type)) =>
            /\ out.result = Thrown
            /\ ~Returned(out.result)
            /\ out.w.progressStore = progressStore
            /\ out.w.athlete = athlete
            /\ out.trigger = NoTrigger
            /\ out.w.tierConfig = WithWorkout(tierConfig, workout)
            /\ \A other \in Slots(tierConfig) :
                 other # slot =>
                   MilestoneAt(out.w.tierConfig, other) = MilestoneAt(tierConfig, other)
  /\ (lastCall.op = "addWorkoutProgress" /\ lastResult = Thrown) => atTrigger = NoTrigger

\* C22 witness: the write failed for the workout that completed the tier
\* the athlete is on; the store still holds the record of the incomplete
\* tier and the athlete is still on that tier with the next tier holding
\* progress
C22_Witness ==
  /\ lastCall.op = "addWorkoutProgress"
  /\ lastResult = Thrown
  /\ athlete.exists /\ athlete.currentTier + 1 < NumTiers
  /\ tierIsCompleted(tierConfig[athlete.currentTier + 1])
  /\ Len(progressStore) = 1
  /\ ~tierIsCompleted(fromJSON(progressStore[1])[athlete.currentTier + 1])
  /\ ~AllZero(tierConfig[athlete.currentTier + 2])
  /\ atTrigger = NoTrigger


\* C23 (one event at a time): the submit flow of the main screen never has
\* two invocations unresolved at the same time, and so never has two engine
\* calls in flight at the same time.
C23_OneCallInFlight ==
  /\ Cardinality(InProgress) <= 1
  /\ Cardinality(InEngine) <= 1


\* the positions of arr that satisfy Test, in ascending order
Positions(n, Test(_)) == SelectSeq([k \in 1..n |-> k], Test)

\* C24 (available milestones): getAvailableMilestones() returns one entry
\* for each milestone of the athlete's current tier, with completed equal to
\* the milestone's isCompleted, the incomplete milestones in catalog order
\* followed by the completed ones in catalog order; it returns the empty
\* list when the current tier does not exist.
C24_AvailableMilestones ==
  LET result == getAvailableMilestones(World)
      tier == getTierByLevel(tierConfig, getCurrentTier(World))
  IN /\ tier # 0 =>
          LET ms == tierConfig[tier].milestones
              order == Positions(Len(ms), LAMBDA k : ~isCompleted(ms[k]))
                         \o Positions(Len(ms), LAMBDA k : isCompleted(ms[k]))
          IN /\ Len(result) = Len(ms)
             /\ \A j \in 1..Len(result) :
                  /\ result[j].type = ms[order[j]].type
                  /\ result[j].name = ms[order[j]].name
                  /\ result[j].progress = ms[order[j]].progress
                  /\ result[j].required = ms[order[j]].requiredWorkouts
                  /\ result[j].completed = isCompleted(ms[order[j]])
             /\ \A i, j \in 1..Len(result) :
                  i < j => ~(result[i].completed /\ ~result[j].completed)
     /\ \A level \in {0 - 1, tierCount(tierConfig), tierCount(tierConfig) + 1} :
          getAvailableMilestones([World EXCEPT !.athlete =
                                    [exists |-> TRUE, currentTier |-> level]]) = << >>
     /\ lastCall.op = "getAvailableMilestones" => lastResult.milestones = result

\* C24 witness: the list was asked for while the first milestone of the
\* current tier was complete and the second was not
C24_Witness ==
  /\ lastCall.op = "getAvailableMilestones"
  /\ athlete.currentTier = 0
  /\ isCompleted(tierConfig[1].milestones[1])
  /\ ~isCompleted(tierConfig[1].milestones[2])
  /\ Len(lastResult.milestones) = 2
  /\ lastResult.milestones[1].type = "platinum" /\ ~lastResult.milestones[1].completed
  /\ lastResult.milestones[2].type = "bronze" /\ lastResult.milestones[2].completed


\* C25 (#tierup): after the #tierup command has run for an athlete on
\* tier L, the configuration loaded from storage has every milestone of
\* tier L complete, for every L including the last tier; when L is not the
\* last tier the athlete's tier pointer is L + 1 and every milestone of
\* tier L + 1 is at zero.
C25_TierupFillsAndAdvances ==
  athlete.exists =>
    \A viaReload \in BOOLEAN :
      LET L == athlete.currentTier
          out == tierup(World, viaReload)
          reloaded == pageLoad(out.w).tierConfig
      IN /\ Applied(out)
         /\ tierIsCompleted(reloaded[L + 1])
         /\ L + 1 < NumTiers =>
              /\ out.w.athlete.currentTier = L + 1
              /\ AllZero(reloaded[L + 2])


\* C26 (#tierclear): after the #tierclear command the athlete record is
\* kept with the tier pointer at 0, and all milestone progress is cleared:
\* every milestone of every tier of the stored configuration has progress 0
\* and no completed benchmark.
C26_TierclearClearsAll ==
  athlete.exists =>
    \A viaReload \in BOOLEAN :
      LET out == tierclear(World, viaReload) IN
      /\ Applied(out)
      /\ out.w.athlete.exists /\ out.w.athlete.currentTier = 0
      /\ Len(out.w.progressStore) = 1
      /\ \A ti \in 1..NumTiers : AllZero(fromJSON(out.w.progressStore[1])[ti])


\* C27 (no deduplication): an accepted ordinary-workout event applied twice
\* to a cumulative milestone with progress p <= requiredWorkouts - 2 counts
\* twice, the milestone ends at p + 2, and each of the two applications
\* writes the whole configuration: after the first the stored record is the
\* full record with the milestone at p + 1, after the second the full
\* record with the milestone at p + 2.
C27_NotDeduplicated ==
  \A workout \in OrdinaryEvents :
    LET once == addWorkoutProgress(World, workout)
        twice == addWorkoutProgress(once.w, workout)
        slot == TargetSlot(tierConfig, workout)
    IN (/\ athlete.exists
        /\ Applied(once)
        /\ ~usesBenchmarks(MilestoneAt(tierConfig, slot))
        /\ MilestoneAt(tierConfig, slot).progress + 2
             <= MilestoneAt(tierConfig, slot).requiredWorkouts) =>
         LET p == MilestoneAt(tierConfig, slot).progress IN
         /\ MilestoneAt(once.w.tierConfig, slot).progress = p + 1
         /\ once.result.milestoneProgress.progress = p + 1
         /\ once.w.progressStore = << FullRecord(once.w.tierConfig) >>
         /\ MilestoneAt(fromJSON(once.w.progressStore[1]), slot).progress = p + 1
         /\ Applied(twice)
         /\ MilestoneAt(twice.w.tierConfig, slot).progress = p + 2
         /\ twice.result.milestoneProgress.progress = p + 2
         /\ twice.w.progressStore = << FullRecord(twice.w.tierConfig) >>
         /\ MilestoneAt(fromJSON(twice.w.progressStore[1]), slot).progress = p + 2

\* C27 witness: the second of two ordinary workouts was counted on the
\* bronze milestone of tier 0, now at 2 in memory and in the stored record
C27_Witness ==
  /\ lastCall.op = "addWorkoutProgress"
  /\ Returned(lastResult) /\ lastResult.success
  /\ lastResult.milestoneProgress.name = "First Steps"
  /\ lastResult.milestoneProgress.required = MaxRequired
  /\ lastResult.milestoneProgress.progress = 2
  /\ tierConfig[1].milestones[1].progress = 2
  /\ progressStore = << FullRecord(tierConfig) >>
  /\ fromJSON(progressStore[1])[1].milestones[1].progress = 2


\* the configuration with the milestone of an accepted event updated
WithEvent(cfg, ev) ==
  LET slot == TargetSlot(cfg, ev.workout)
      ms == MilestoneAt(cfg, slot)
  IN [cfg EXCEPT ![slot[1]].milestones[slot[2]] =
        IF ev.benchmarkIndex = << >> THEN addProgress(ms, 1)
        ELSE completeBenchmark(ms, ev.benchmarkIndex[1])]

\* what one step of the call in slot id does, by the position it leaves
StepOrder(id) ==
  LET c == calls[id]
      after == calls'[id]
  IN
  \* apply: the milestone is updated in memory, nothing is written
  /\ (c.pc = "idle" /\ after.pc # "idle") =>
       /\ after.pc = "saveProgress"
       /\ tierConfig' = WithEvent(tierConfig, after.ev)
       /\ after.record = FullRecord(tierConfig')
       /\ progressStore' = progressStore
       /\ athlete' = athlete
  \* persist: the updated configuration is stored; then the next tier is
  \* reset exactly when the tier is complete and has a successor
  /\ (c.pc = "saveProgress" /\ after.pc # "saveProgress") =>
       LET L == c.ev.workout.tier IN
       /\ progressStore' = << FullRecord(tierConfig) >>
       /\ athlete' = athlete
       /\ IF tierIsCompleted(tierConfig[L + 1]) /\ L + 1 < NumTiers
          THEN /\ after.pc = "updateTier"
               /\ tierConfig' = [tierConfig EXCEPT ![L + 2] = resetProgress(@)]
          ELSE /\ after.pc = "idle"
               /\ tierConfig' = tierConfig
  \* write athlete pointer: the stored configuration shows tier L complete
  /\ (c.pc = "updateTier" /\ after.pc # "updateTier") =>
       LET L == c.ev.workout.tier IN
       /\ after.pc = "saveProgressAgain"
       /\ athlete'.currentTier = L + 1
       /\ tierConfig' = tierConfig
       /\ AllZero(tierConfig[L + 2])
       /\ progressStore' = progressStore
       /\ tierIsCompleted(fromJSON(progressStore'[1])[L + 1])
  \* re-persist
  /\ (c.pc = "saveProgressAgain" /\ after.pc # "saveProgressAgain") =>
       LET L == c.ev.workout.tier IN
       /\ after.pc = "idle"
       /\ progressStore' = << FullRecord(tierConfig) >>
       /\ tierConfig' = tierConfig
       /\ athlete' = athlete /\ athlete.currentTier = L + 1
       /\ tierIsCompleted(fromJSON(progressStore'[1])[L + 1])
       /\ AllZero(fromJSON(progressStore'[1])[L + 2])
       /\ lastResult'.tierLevelUp.leveledUp /\ lastResult'.tierLevelUp.newTier = L + 1

\* C28 (order of the steps of one event): the milestone update is applied,
\* then the configuration is persisted, then, only if the tier is complete
\* and has a successor, the next tier is reset, the athlete pointer is
\* written and the configuration is persisted again; so whenever the
\* athlete pointer is advanced to L + 1 by a level-up, the stored
\* configuration already shows tier L complete.
C28_StepOrder == [][\A id \in 1..MaxCalls : StepOrder(id)]_vars

\* C28 witness: between the write of the athlete pointer and the
\* re-persist: the pointer is L + 1, the stored configuration shows tier L
\* complete and still holds the progress of tier L + 1 that was reset in
\* memory
C28_Witness ==
  \E id \in 1..MaxCalls :
    /\ calls[id].pc = "saveProgressAgain"
    /\ LET L == calls[id].ev.workout.tier IN
       /\ athlete.currentTier = L + 1
       /\ tierIsCompleted(fromJSON(progressStore[1])[L + 1])
       /\ AllZero(tierConfig[L + 2])
       /\ ~AllZero(fromJSON(progressStore[1])[L + 2])


\* the result reports an advancement into tier n
ReportsLevelUp(result, n) ==
  /\ Returned(result) /\ result.success
  /\ "tierLevelUp" \in DOMAIN result
  /\ result.tierLevelUp.leveledUp
  /\ result.tierLevelUp.newTier = n

\* C29 (one advancement per tier): once an event has reported leveledUp
\* with newTier L + 1, no further event reports leveledUp with newTier
\* L + 1 and none resets tier L + 1 again, until a full reset; here for the
\* event that follows the advancement.
C29_LevelUpOncePerTier ==
  \A n \in 1..(NumTiers - 1) :
    ReportsLevelUp(lastResult, n) =>
      /\ \A workout \in OrdinaryEvents :
           LET out == addWorkoutProgress(World, workout) IN
           /\ ~ReportsLevelUp(out.result, n)
           /\ out.trigger # NoTrigger => out.trigger[1].level # n - 1
      /\ \A workout \in BenchmarkEvents, benchmarkIndex \in EventBenchmarkIndices :
           LET out == completeBenchmarkEvent(World, workout, benchmarkIndex) IN
           /\ ~ReportsLevelUp(out.result, n)
           /\ out.trigger # NoTrigger => out.trigger[1].level # n - 1


\* C30 (100 percent means completed): in every reachable state, for every
\* tier of the configuration, the weighted progressPercent is 100 exactly
\* when the tier isCompleted; the same holds for the configuration a page
\* load builds from the stored record.
C30_FullPercentIffCompleted ==
  /\ \A ti \in 1..Len(tierConfig) :
       (tierProgressPercent(tierConfig[ti]) = Frac(100, 1)) <=> tierIsCompleted(tierConfig[ti])
  /\ LET loaded == pageLoad(World).tierConfig IN
     \A ti \in 1..Len(loaded) :
       (tierProgressPercent(loaded[ti]) = Frac(100, 1)) <=> tierIsCompleted(loaded[ti])

\* C30 witness: after an event, tier 0 is completed and shows 100 percent
\* while the last tier has its cumulative milestone completed, its
\* benchmark milestone open and shows less than 100 percent
C30_Witness ==
  /\ lastCall.op \in {"addWorkoutProgress", "completeBenchmark"}
  /\ tierIsCompleted(tierConfig[1])
  /\ tierProgressPercent(tierConfig[1]) = Frac(100, 1)
  /\ isCompleted(tierConfig[NumTiers].milestones[1])
  /\ ~isCompleted(tierConfig[NumTiers].milestones[2])
  /\ ~tierIsCompleted(tierConfig[NumTiers])
  /\ tierProgressPercent(tierConfig[NumTiers]) # Frac(100, 1)
  /\ tierProgressPercent(tierConfig[NumTiers]) # Frac(0, 1)


C32_TierPointerInRange ==
  athlete.exists =>
    /\ athlete.currentTier \in 0..(tierCount(tierConfig) - 1)
    /\ getTierByLevel(tierConfig, getCurrentTier(World)) # 0
    /\ getTierProgressSummary(World).tierName # "Unknown"
    /\ getTierProgressSummary(World).tierLevel = athlete.currentTier
    /\ getTierProgressSummary(World).totalMilestones > 0
    /\ LET loaded == pageLoad(World) IN
       /\ loaded.athlete.currentTier \in 0..(tierCount(loaded.tierConfig) - 1)
       /\ getTierProgressSummary(loaded).tierName # "Unknown"

\* C32 witness: an event has advanced the athlete to the last tier, and the
\* summary is the one of the last tier
C32_Witness ==
  /\ lastCall.op \in {"addWorkoutProgress", "completeBenchmark"}
  /\ ReportsLevelUp(lastResult, NumTiers - 1)
  /\ athlete.exists /\ athlete.currentTier = tierCount(tierConfig) - 1
  /\ getTierProgressSummary(World).tierLevel = NumTiers - 1
  /\ getTierProgressSummary(World).tierName = TierNames[NumTiers]


\* C33 (saving the profile keeps the tier pointer): saving an existing
\* athlete profile does not change the stored currentTier, also when the
\* save interleaves with the updateTier of a level-up: once the event that
\* reported leveledUp with newTier n and every save have completed, the
\* stored currentTier is n.
C33_SaveKeepsTier ==
  \A n \in 1..(NumTiers - 1) :
    (InProgress = {} /\ ReportsLevelUp(lastResult, n)) => athlete.currentTier = n


\* C34: every record of the workout store belongs to an event the engine
\* applied: when a submission has ended without the engine applying its
\* event (rejected, thrown, or the video proof discarded), the store holds no
\* record of that submission's workout
SubmissionOps == {"selectProofMethodAndSubmit", "submitVideoProof", "discardVideoRecording"}

C34_StoredWorkoutsApplied ==
  (lastCall.op \in SubmissionOps /\ ~Applied([result |-> lastResult]))
    => \A k \in 1..Len(workouts) : workouts[k].id # lastCall.workout


\* C35: the percentage of a milestone is 100 * progress / requiredWorkouts,
\* or 100 * completed / number of benchmarks for a benchmark milestone,
\* clamped to 100; it is 0 when the divisor is zero and it is always a number
PercentDividend(ms) ==
  IF usesBenchmarks(ms) THEN Len(ms.benchmarksCompleted) ELSE ms.progress

PercentDivisor(ms) ==
  IF usesBenchmarks(ms) THEN Len(ms.benchmarkWorkouts) ELSE ms.requiredWorkouts

C35_PercentDefined ==
  /\ progressPercent(m).d # 0
  /\ progressPercent(m) =
       IF PercentDivisor(m) = 0 THEN Frac(0, 1)
       ELSE Min100(Frac(100 * PercentDividend(m), PercentDivisor(m)))


\* C36: the record in the storage is a snapshot of its own: no Tier object
\* and no other record refers to one of its benchmarksCompleted arrays, so
\* that no update in memory reaches it; and a Tier object restored from a
\* record shares no benchmarksCompleted array with a record or with another
\* Tier object
OwnedSnapshot ==
  refsOfAll(heap.stored) \cap (refsOfAll(heap.tiers) \cup refsOfAll(heap.data)) = {}

RestoredSharesNothing ==
  \A o \in 1..Len(heap.tiers) :
    heap.made[o].by = "fromJSON" =>
      /\ refsOf(heap.tiers[o]) \cap (refsOfAll(heap.data) \cup refsOfAll(heap.stored)) = {}
      /\ \A p \in 1..Len(heap.tiers) :
           p # o => refsOf(heap.tiers[o]) \cap refsOf(heap.tiers[p]) = {}

C36_OwnedSnapshot == OwnedSnapshot /\ RestoredSharesNothing


\* C37: a clone has the level, the name and the milestone definitions of
\* the original in the same order, with progress 0 and an empty
\* benchmarksCompleted on every milestone; cloning leaves the original as it
\* was, and the clone shares no array with another Tier object, so that no
\* update of the clone reaches the original
SameDefinition(a, b) ==
  /\ a.type = b.type /\ a.name = b.name /\ a.requiredWorkouts = b.requiredWorkouts
  /\ a.workoutRequirements = b.workoutRequirements
  /\ a.benchmarkWorkouts = b.benchmarkWorkouts

FreshCopyOf(c, t) ==
  /\ c.level = t.level /\ c.name = t.name
  /\ Len(c.milestones) = Len(t.milestones)
  /\ \A k \in 1..Len(t.milestones) :
       /\ SameDefinition(c.milestones[k], t.milestones[k])
       /\ c.milestones[k].progress = 0
       /\ c.milestones[k].benchmarksCompleted = << >>

Clones == {c \in 1..Len(heap.tiers) : heap.made[c].by = "clone"}

C37_CloneFreshAndSeparate ==
  /\ lastCall.op = "clone" =>
       LET c == Deref(heap, heap.tiers[Len(heap.tiers)]) IN
       /\ FreshCopyOf(c, lastCall.before)
       /\ cloneWithFreshProgress(<< lastCall.before >>) = << c >>
       /\ Deref(heap, heap.tiers[lastCall.of]) = lastCall.before
  /\ \A c \in Clones : \A o \in 1..Len(heap.tiers) :
       o # c => refsOf(heap.tiers[c]) \cap refsOf(heap.tiers[o]) = {}

\* a clone that was updated after an original with progress was cloned
C37_Witness ==
  \E c \in Clones :
    LET clone == Deref(heap, heap.tiers[c])
        original == Deref(heap, heap.tiers[heap.made[c].of])
    IN \E k \in 1..Len(clone.milestones) : \E j \in 1..Len(clone.milestones) :
         /\ usesBenchmarks(clone.milestones[k])
         /\ clone.milestones[k].benchmarksCompleted # << >>
         /\ original.milestones[k].benchmarksCompleted = << >>
         /\ original.milestones[j].progress > 0
         /\ clone.milestones[j].progress = 0


\* C38: getTierProgressSummary() and getAvailableMilestones() are read-only:
\* the configuration (every progress and benchmarksCompleted), the stored
\* record and the athlete's tier are as they were before the call; and the
\* counts and the percentage of the summary are those of the athlete's tier
ReadOnlyCalls == {"getTierProgressSummary", "getAvailableMilestones"}

SummaryOfTier(summary, cfg, level) ==
  IF getTierByLevel(cfg, level) = 0
  THEN summary.completedMilestones = 0 /\ summary.totalMilestones = 0
       /\ summary.progressPercent = Frac(0, 1)
  ELSE LET t == cfg[getTierByLevel(cfg, level)] IN
       /\ summary.tierLevel = level
       /\ summary.totalMilestones = Len(t.milestones)
       /\ summary.completedMilestones =
            Cardinality({k \in 1..Len(t.milestones) : isCompleted(t.milestones[k])})
       /\ summary.progressPercent = tierProgressPercent(t)
       /\ Len(summary.milestones) = Len(t.milestones)
       /\ \A k \in 1..Len(t.milestones) :
            /\ summary.milestones[k].progress = t.milestones[k].progress
            /\ summary.milestones[k].completed = isCompleted(t.milestones[k])

C38_GettersReadOnly ==
  lastCall.op \in ReadOnlyCalls =>
    /\ tierConfig = lastCall.before.tierConfig
    /\ progressStore = lastCall.before.progressStore
    /\ athlete = lastCall.before.athlete
    /\ lastCall.op = "getTierProgressSummary" =>
         SummaryOfTier(lastResult.summary, tierConfig, athlete.currentTier)

\* the summary of a tier with a completed and an open milestone, taken
\* while the stored record holds the progress
C38_Witness ==
  /\ lastCall.op = "getTierProgressSummary"
  /\ lastResult.summary.completedMilestones > 0
  /\ lastResult.summary.completedMilestones < lastResult.summary.totalMilestones
  /\ lastResult.summary.progressPercent # Frac(0, 1)
  /\ progressStore # << >>
  /\ ~isCompleted(tierConfig[athlete.currentTier + 1].milestones[2])

====
